---- MODULE Spec2Model ----
(***************************************************************************)
(* A model of the compilation pipeline of the final stage (Vpl14):         *)
(*   AST -> RenameVisitor -> GenVisitor -> Program.eval                    *)
(* together with the reference tree-walking EvalVisitor (Vpl9).            *)
(*                                                                         *)
(* Representation of Python values:                                        *)
(*  - None is the empty sequence, an optional value x is <<x>>;            *)
(*  - the register dictionary Program.__env holds integers and, through    *)
(*    GenVisitor.visit_fn, closure tuples.  It is kept as two functions    *)
(*    with disjoint domains: env (names holding an integer) and clos      *)
(*    (names holding a closure tuple); a name is "in the dictionary" when  *)
(*    it is in one of the two domains;                                     *)
(*  - the memory list memory_size*[0] is the record [size, cells], cells   *)
(*    giving the cells written so far, every other cell reading 0;         *)
(*  - instructions and AST nodes are records carrying the fields of the    *)
(*    Python classes, plus a tag (op, k) naming the class.                 *)
(***************************************************************************)
EXTENDS Integers, Sequences, FiniteSets, TLC

VARIABLES
    steps,      \* number of instructions executed so far (bounds the runs of the model)
    insts,      \* Program.__insts
    env,        \* Program.__env, the names bound to integers
    clos,       \* Program.__env, the names bound to closure tuples
    mem,        \* Program.__mem
    pc,         \* Program.pc
    inst,       \* the local variable inst of Program.eval (None before the first fetch)
    status,     \* "idle" | "running" | "halted" | "error"
    error,      \* the message or exception that aborted the run ("" when none)
    phase,      \* position of the driver: "lexing" .. "parsed" | "renamed" | "machine" | "done"
    src,        \* the expression as the parser returned it (history variable)
    exp,        \* the AST the driver holds (mutated in place by RenameVisitor)
    var_answer, \* the register name returned by code generation
    answer,     \* what the driver prints at the end (None before)
    source,     \* Lexer.source, the program text as a sequence of characters
    position,   \* Lexer.position
    tokens,     \* the tokens Lexer.tokens() has yielded, then Parser.tokens
    cur_token_idx,  \* Parser.cur_token_idx
    constraints,    \* the constraints CtrGenVisitor returned (None before)
    type_names      \* what infer_types returned or raised (None before)

\* The state of the lexer and of the parser
lexerVars == <<source, position, tokens, cur_token_idx>>

\* The state of the type inference
typeVars == <<constraints, type_names>>

vars == <<steps, insts, env, clos, mem, pc, inst, status, error, phase, src, exp, var_answer, answer,
          lexerVars, typeVars>>

None == <<>>

Some(x) == <<x>>

(***************************************************************************)
(* Bounds of the model.                                                    *)
(***************************************************************************)
MaxInsts == 2       \* longest instruction list of the machine specification
MaxMem == 2         \* largest memory size of the machine specification
MaxVal == 1         \* initial register values and offsets range over -MaxVal..MaxVal
MaxSteps == 4       \* instructions the machine specification lets one run execute
MaxGenSteps == 60   \* instructions the pipeline specification lets one run execute
MaxNum == 2         \* the number literals of the source expressions are 0..MaxNum
MaxPieces == 3      \* the texts of the lexer are made of at most MaxPieces pieces
MaxOperand == 3     \* largest operand of the division specification
MaxTokens == 3      \* the texts of the parser are made of at most MaxTokens lexemes

(***************************************************************************)
(* Asm.py: instructions.                                                   *)
(***************************************************************************)
BinOp(op, rd, rs1, rs2) == [op |-> op, rd |-> rd, rs1 |-> rs1, rs2 |-> rs2]

BinOpImm(op, rd, rs1, imm) == [op |-> op, rd |-> rd, rs1 |-> rs1, imm |-> imm]

Beq(rs1, rs2, lab) == [op |-> "beq", rs1 |-> rs1, rs2 |-> rs2, lab |-> lab]

Jal(rd, lab) == [op |-> "jal", rd |-> rd, lab |-> lab]

Jalr(rd, rs, offset) == [op |-> "jalr", rd |-> rd, rs |-> rs, offset |-> offset]

MemOp(op, rs1, offset, reg) == [op |-> op, rs1 |-> rs1, offset |-> offset, reg |-> reg]

set_target(i, lab) == [i EXCEPT !.lab = Some(lab)]

BinOpcodes == {"add", "sub", "mul", "div", "xor", "slt"}

BinOpImmOpcodes == {"addi", "xori", "slti"}

(***************************************************************************)
(* Python's integer operators.                                             *)
(***************************************************************************)
RECURSIVE PyXor(_, _)
PyXor(a, b) ==
    IF a = 0 THEN b
    ELSE IF b = 0 THEN a
    ELSE IF a = -1 THEN (-b) - 1
    ELSE IF b = -1 THEN (-a) - 1
    ELSE (((a % 2) + (b % 2)) % 2) + 2 * PyXor(a \div 2, b \div 2)

\* a // b for b # 0: the floor of the quotient, whatever the signs
PyFloorDiv(a, b) ==
    IF b > 0 THEN a \div b ELSE (-a) \div (-b)

ALU(op, a, b) ==
    CASE op \in {"add", "addi"} -> a + b
      [] op = "sub" -> a - b
      [] op = "mul" -> a * b
      [] op = "div" -> PyFloorDiv(a, b)
      [] op \in {"xor", "xori"} -> PyXor(a, b)
      [] op \in {"slt", "slti"} -> IF a < b THEN 1 ELSE 0

(***************************************************************************)
(* Asm.py: class Program.  A Program object is the record                  *)
(* [insts, env, clos, mem, pc, error]; error # "" once sys.exit or an      *)
(* exception has ended the process.                                        *)
(***************************************************************************)
Extend(f, name, value) == (name :> value) @@ f

Without(f, name) == [n \in DOMAIN f \ {name} |-> f[n]]

ProgramInit(memory_size, e, is) ==
    [insts |-> is,
     env |-> Extend(Extend(e, "x0", 0), "sp", memory_size),
     clos |-> <<>>,
     mem |-> [size |-> memory_size, cells |-> <<>>],
     pc |-> 0,
     error |-> ""]

Fail(p, msg) == [p EXCEPT !.error = msg]

InEnv(p, name) == name \in DOMAIN p.env \/ name \in DOMAIN p.clos

IsClosure(p, name) == name \in DOMAIN p.clos

set_val_unguarded(p, name, value) ==
    [p EXCEPT !.env = Extend(p.env, name, value), !.clos = Without(p.clos, name)]

set_val(p, name, value) ==
    IF name # "x0"
    THEN [p EXCEPT !.env = Extend(p.env, name, value), !.clos = Without(p.clos, name)]
    ELSE p

\* set_val with a closure tuple as the value
set_val_closure(p, name, closure) ==
    IF name # "x0"
    THEN [p EXCEPT !.clos = Extend(p.clos, name, closure), !.env = Without(p.env, name)]
    ELSE p

add_inst(p, i) == [p EXCEPT !.insts = Append(p.insts, i)]

get_number_of_instructions(p) == Len(p.insts)

set_pc(p, target) == [p EXCEPT !.pc = target]

\* The index of a Python list of length n that the subscript addr denotes
\* (None: IndexError).  Negative subscripts count from the end of the list.
ListIndex(n, addr) ==
    IF 0 <= addr /\ addr < n THEN Some(addr)
    ELSE IF -n <= addr /\ addr < 0 THEN Some(n + addr)
    ELSE None

Cell(m, idx) == IF idx \in DOMAIN m.cells THEN m.cells[idx] ELSE 0

\* The list Program.__mem itself
MemList(m) == [idx \in 0 .. m.size - 1 |-> Cell(m, idx)]

set_mem(p, addr, value) ==
    LET idx == ListIndex(p.mem.size, addr) IN
    IF idx = None THEN Fail(p, "IndexError")
    ELSE [p EXCEPT !.mem.cells = Extend(p.mem.cells, idx[1], value)]

\* get_mem: the value read, or None on IndexError
get_mem(p, addr) ==
    LET idx == ListIndex(p.mem.size, addr) IN
    IF idx = None THEN None ELSE Some(Cell(p.mem, idx[1]))

\* get_inst that fetches without incrementing the program counter
get_inst_no_increment(is, c) ==
    IF c >= 0 /\ c < Len(is)
    THEN [inst |-> Some(is[c + 1]), pc |-> c]
    ELSE [inst |-> None, pc |-> c]

\* get_inst: the instruction fetched (or None) and the program counter after the call
get_inst(is, c) ==
    IF c >= 0 /\ c < Len(is)
    THEN [inst |-> Some(is[c + 1]), pc |-> c + 1]
    ELSE [inst |-> None, pc |-> c]

(***************************************************************************)
(* Asm.py: the eval methods of the instructions.                           *)
(***************************************************************************)
Beq_eval(i, p) ==
    IF ~InEnv(p, i.rs1) \/ ~InEnv(p, i.rs2) THEN Fail(p, "Undefined register")
    ELSE IF IsClosure(p, i.rs1) \/ IsClosure(p, i.rs2)
    THEN \* a tuple equals no integer; two tuples are compared structurally
         IF IsClosure(p, i.rs1) /\ IsClosure(p, i.rs2) /\ p.clos[i.rs1] = p.clos[i.rs2]
         THEN (IF i.lab = None THEN Fail(p, "TypeError") ELSE set_pc(p, i.lab[1]))
         ELSE p
    ELSE IF p.env[i.rs1] = p.env[i.rs2]
    THEN \* an unpatched target makes pc None, and the next fetch raises TypeError
         (IF i.lab = None THEN Fail(p, "TypeError") ELSE set_pc(p, i.lab[1]))
    ELSE p

Jal_eval_plus_one(i, p) ==
    LET q == IF i.rd # "x0" THEN set_val(p, i.rd, p.pc + 1) ELSE p IN
    IF i.lab = None THEN Fail(q, "TypeError") ELSE set_pc(q, i.lab[1])

Jal_eval(i, p) ==
    LET q == IF i.rd # "x0" THEN set_val(p, i.rd, p.pc) ELSE p IN
    IF i.lab = None THEN Fail(q, "TypeError") ELSE set_pc(q, i.lab[1])

Jalr_eval(i, p) ==
    LET q == IF i.rd # "x0" THEN set_val(p, i.rd, p.pc) ELSE p IN
    IF ~InEnv(q, i.rs) THEN Fail(q, "Undefined register")
    ELSE IF IsClosure(q, i.rs) THEN Fail(q, "TypeError")
    ELSE set_pc(q, q.env[i.rs] + i.offset)

Sw_eval(i, p) ==
    IF ~InEnv(p, i.reg) \/ ~InEnv(p, i.rs1) THEN Fail(p, "Undefined register")
    ELSE IF IsClosure(p, i.reg) \/ IsClosure(p, i.rs1) THEN Fail(p, "TypeError")
    ELSE set_mem(p, p.env[i.rs1] + i.offset, p.env[i.reg])

Lw_eval(i, p) ==
    IF ~InEnv(p, i.rs1) THEN Fail(p, "Undefined register")
    ELSE IF IsClosure(p, i.rs1) THEN Fail(p, "TypeError")
    ELSE LET val == get_mem(p, p.env[i.rs1] + i.offset) IN
         IF val = None THEN Fail(p, "IndexError") ELSE set_val(p, i.reg, val[1])

BinOp_eval(i, p) ==
    IF ~InEnv(p, i.rs1) \/ ~InEnv(p, i.rs2) THEN Fail(p, "Undefined register")
    ELSE IF IsClosure(p, i.rs1) \/ IsClosure(p, i.rs2) THEN Fail(p, "TypeError")
    ELSE IF i.op = "div" /\ p.env[i.rs2] = 0 THEN Fail(p, "ZeroDivisionError")
    ELSE set_val(p, i.rd, ALU(i.op, p.env[i.rs1], p.env[i.rs2]))

BinOpImm_eval(i, p) ==
    IF ~InEnv(p, i.rs1) THEN Fail(p, "Undefined register")
    ELSE IF IsClosure(p, i.rs1) THEN Fail(p, "TypeError")
    ELSE set_val(p, i.rd, ALU(i.op, p.env[i.rs1], i.imm))

Inst_eval(i, p) ==
    CASE i.op = "beq" -> Beq_eval(i, p)
      [] i.op = "jal" -> Jal_eval(i, p)
      [] i.op = "jalr" -> Jalr_eval(i, p)
      [] i.op = "sw" -> Sw_eval(i, p)
      [] i.op = "lw" -> Lw_eval(i, p)
      [] i.op \in BinOpcodes -> BinOp_eval(i, p)
      [] i.op \in BinOpImmOpcodes -> BinOpImm_eval(i, p)

(***************************************************************************)
(* Expression.py: the nodes of the AST.                                    *)
(***************************************************************************)
Var(identifier) == [k |-> "Var", identifier |-> identifier]

Bln(bln) == [k |-> "Bln", bln |-> bln]

Num(num) == [k |-> "Num", num |-> num]

\* Eql, Add, And, Or, Sub, Mul, Div, Leq, Lth
BinaryExpression(k, left, right) == [k |-> k, left |-> left, right |-> right]

\* Neg, Not
UnaryExpression(k, e) == [k |-> k, exp |-> e]

Let(identifier, exp_def, exp_body) ==
    [k |-> "Let", identifier |-> identifier, exp_def |-> exp_def, exp_body |-> exp_body]

IfThenElse(cond, e0, e1) == [k |-> "IfThenElse", cond |-> cond, e0 |-> e0, e1 |-> e1]

Fn(formal, body) == [k |-> "Fn", formal |-> formal, body |-> body]

App(function, actual) == [k |-> "App", function |-> function, actual |-> actual]

BinaryKinds == {"Eql", "Add", "And", "Or", "Sub", "Mul", "Div", "Leq", "Lth"}

UnaryKinds == {"Neg", "Not"}

(***************************************************************************)
(* Visitor.py (Vpl14): RenameVisitor.  The visitor mutates the nodes in    *)
(* place; here every visit returns the node as it is after the visit,      *)
(* with the visitor's _counter.                                            *)
(***************************************************************************)
rename_reusing_counter(base, counter) ==
    [name |-> base \o "_" \o ToString(counter), counter |-> counter]

rename(base, counter) ==
    [name |-> base \o "_" \o ToString(counter), counter |-> counter + 1]

RECURSIVE Rename_accept(_, _, _)

Rename_visit_var(e, name_map, counter) ==
    [exp |-> IF e.identifier \in DOMAIN name_map
             THEN [e EXCEPT !.identifier = name_map[e.identifier]]
             ELSE e,
     counter |-> counter]

Rename_visit_binary(e, name_map, counter) ==
    LET l == Rename_accept(e.left, name_map, counter)
        r == Rename_accept(e.right, name_map, l.counter)
    IN [exp |-> [e EXCEPT !.left = l.exp, !.right = r.exp], counter |-> r.counter]

Rename_visit_unary(e, name_map, counter) ==
    LET u == Rename_accept(e.exp, name_map, counter)
    IN [exp |-> [e EXCEPT !.exp = u.exp], counter |-> u.counter]

Rename_visit_let_def_in_scope(e, name_map, counter) ==
    LET originalId == e.identifier
        new == rename(originalId, counter)
        extended_map == Extend(name_map, originalId, new.name)
        d == Rename_accept(e.exp_def, extended_map, new.counter)
        b == Rename_accept(e.exp_body, extended_map, d.counter)
    IN [exp |-> [e EXCEPT !.identifier = new.name, !.exp_def = d.exp, !.exp_body = b.exp],
        counter |-> b.counter]

Rename_visit_let(e, name_map, counter) ==
    LET d == Rename_accept(e.exp_def, name_map, counter)
        originalId == e.identifier
        new == rename(originalId, d.counter)
        extended_map == Extend(name_map, originalId, new.name)
        b == Rename_accept(e.exp_body, extended_map, new.counter)
    IN [exp |-> [e EXCEPT !.identifier = new.name, !.exp_def = d.exp, !.exp_body = b.exp],
        counter |-> b.counter]

Rename_visit_ifThenElse(e, name_map, counter) ==
    LET c == Rename_accept(e.cond, name_map, counter)
        t == Rename_accept(e.e0, name_map, c.counter)
        f == Rename_accept(e.e1, name_map, t.counter)
    IN [exp |-> [e EXCEPT !.cond = c.exp, !.e0 = t.exp, !.e1 = f.exp], counter |-> f.counter]

Rename_visit_fn(e, name_map, counter) ==
    LET originalId == e.formal
        new == rename(originalId, counter)
        extended_map == Extend(name_map, originalId, new.name)
        b == Rename_accept(e.body, extended_map, new.counter)
    IN [exp |-> [e EXCEPT !.formal = new.name, !.body = b.exp], counter |-> b.counter]

Rename_visit_app(e, name_map, counter) ==
    LET f == Rename_accept(e.function, name_map, counter)
        a == Rename_accept(e.actual, name_map, f.counter)
    IN [exp |-> [e EXCEPT !.function = f.exp, !.actual = a.exp], counter |-> a.counter]

\* Expression.accept, dispatching on the class of the node
Rename_accept(e, name_map, counter) ==
    CASE e.k = "Var" -> Rename_visit_var(e, name_map, counter)
      [] e.k \in {"Bln", "Num"} -> [exp |-> e, counter |-> counter]
      [] e.k \in BinaryKinds -> Rename_visit_binary(e, name_map, counter)
      [] e.k \in UnaryKinds -> Rename_visit_unary(e, name_map, counter)
      [] e.k = "Let" -> Rename_visit_let(e, name_map, counter)
      [] e.k = "IfThenElse" -> Rename_visit_ifThenElse(e, name_map, counter)
      [] e.k = "Fn" -> Rename_visit_fn(e, name_map, counter)
      [] e.k = "App" -> Rename_visit_app(e, name_map, counter)

\* driver.py: rename_variables
rename_variables(e) == Rename_accept(e, <<>>, 0).exp

(***************************************************************************)
(* Visitor.py (Vpl14): GenVisitor.  The state of a generation is the       *)
(* record g = [prog, next_var_counter, written], written the nodes of the  *)
(* expression that the visit has overwritten; every visit returns the      *)
(* register name with the state after the visit.  A closure tuple          *)
(* ("closure", formal, body, current_env) is the record                    *)
(* [formal, body, env, clos], env and clos being the two halves of the     *)
(* copied dictionary.                                                      *)
(***************************************************************************)
next_var_name(g) ==
    [name |-> "tmp" \o ToString(g.next_var_counter + 1),
     g |-> [g EXCEPT !.next_var_counter = @ + 1]]

\* prog.add_inst(i)
Emit(g, i) == [g EXCEPT !.prog = add_inst(g.prog, i)]

\* The index (from 0) of the instruction the next add_inst appends
Here(g) == get_number_of_instructions(g.prog)

Patch_self(g, at) == [g EXCEPT !.prog.insts[at + 1] = set_target(@, at)]

\* b.set_target(prog.get_number_of_instructions()), b the instruction at index at
Patch(g, at) == [g EXCEPT !.prog.insts[at + 1] = set_target(@, Here(g))]

RECURSIVE Gen_accept(_, _)

Gen_visit_var(e, g) == [reg |-> e.identifier, g |-> g]

Gen_visit_bln(e, g) ==
    LET dest == next_var_name(g)
        value == IF e.bln THEN 1 ELSE 0
    IN [reg |-> dest.name, g |-> Emit(dest.g, BinOpImm("addi", dest.name, "x0", value))]

Gen_visit_num(e, g) ==
    LET dest == next_var_name(g)
    IN [reg |-> dest.name, g |-> Emit(dest.g, BinOpImm("addi", dest.name, "x0", e.num))]

Gen_visit_eql_lt_one(e, g) ==
    LET l == Gen_accept(e.left, g)
        r == Gen_accept(e.right, l.g)
        diff == next_var_name(r.g)
        g1 == Emit(diff.g, BinOp("sub", diff.name, l.reg, r.reg))
        lt_one == next_var_name(g1)
    IN [reg |-> lt_one.name, g |-> Emit(lt_one.g, BinOpImm("slti", lt_one.name, diff.name, 1))]

Gen_visit_eql(e, g) ==
    LET l == Gen_accept(e.left, g)
        r == Gen_accept(e.right, l.g)
        diff == next_var_name(r.g)
        g1 == Emit(diff.g, BinOp("sub", diff.name, l.reg, r.reg))
        lt_one == next_var_name(g1)
        g2 == Emit(lt_one.g, BinOpImm("slti", lt_one.name, diff.name, 1))
        lt_zero == next_var_name(g2)
        g3 == Emit(lt_zero.g, BinOpImm("slti", lt_zero.name, diff.name, 0))
        result == next_var_name(g3)
    IN [reg |-> result.name,
        g |-> Emit(result.g, BinOp("xor", result.name, lt_one.name, lt_zero.name))]

Gen_visit_and_no_branch(e, g) ==
    LET l == Gen_accept(e.left, g)
        r == Gen_accept(e.right, l.g)
        dest == next_var_name(r.g)
    IN [reg |-> dest.name, g |-> Emit(dest.g, BinOp("mul", dest.name, l.reg, r.reg))]

Gen_visit_and(e, g) ==
    LET l == Gen_accept(e.left, g)
        beq == Here(l.g)
        g1 == Emit(l.g, Beq(l.reg, "x0", None))
        r == Gen_accept(e.right, g1)
        dest == next_var_name(r.g)
        g2 == Emit(dest.g, BinOp("add", dest.name, r.reg, "x0"))
        jmp == Here(g2)
        g3 == Emit(g2, Jal("x0", None))
        g4 == Patch(g3, beq)
        g5 == Emit(g4, BinOpImm("addi", dest.name, "x0", 0))
    IN [reg |-> dest.name, g |-> Patch(g5, jmp)]

Gen_visit_or(e, g) ==
    LET l == Gen_accept(e.left, g)
        beq == Here(l.g)
        g1 == Emit(l.g, Beq(l.reg, "x0", None))
        dest == next_var_name(g1)
        g2 == Emit(dest.g, BinOpImm("addi", dest.name, "x0", 1))
        jmp == Here(g2)
        g3 == Emit(g2, Jal("x0", None))
        g4 == Patch(g3, beq)
        r == Gen_accept(e.right, g4)
        g5 == Emit(r.g, BinOp("add", dest.name, r.reg, "x0"))
    IN [reg |-> dest.name, g |-> Patch(g5, jmp)]

\* visit_add, visit_sub, visit_mul, visit_div, visit_lth: one instruction op
Gen_visit_binop(e, g, op) ==
    LET l == Gen_accept(e.left, g)
        r == Gen_accept(e.right, l.g)
        dest == next_var_name(r.g)
    IN [reg |-> dest.name, g |-> Emit(dest.g, BinOp(op, dest.name, l.reg, r.reg))]

Gen_visit_leq_strict(e, g) ==
    LET l == Gen_accept(e.left, g)
        r == Gen_accept(e.right, l.g)
        dest == next_var_name(r.g)
    IN [reg |-> dest.name, g |-> Emit(dest.g, BinOp("slt", dest.name, l.reg, r.reg))]

Gen_visit_leq(e, g) ==
    LET l == Gen_accept(e.left, g)
        r == Gen_accept(e.right, l.g)
        lower_than == next_var_name(r.g)
        g1 == Emit(lower_than.g, BinOp("slt", lower_than.name, r.reg, l.reg))
        dest == next_var_name(g1)
    IN [reg |-> dest.name, g |-> Emit(dest.g, BinOpImm("xori", dest.name, lower_than.name, 1))]

Gen_visit_neg(e, g) ==
    LET operand == Gen_accept(e.exp, g)
        dest == next_var_name(operand.g)
    IN [reg |-> dest.name, g |-> Emit(dest.g, BinOp("sub", dest.name, "x0", operand.reg))]

Gen_visit_not(e, g) ==
    LET operand == Gen_accept(e.exp, g)
        lt_one == next_var_name(operand.g)
        g1 == Emit(lt_one.g, BinOpImm("slti", lt_one.name, operand.reg, 1))
        lt_zero == next_var_name(g1)
        g2 == Emit(lt_zero.g, BinOpImm("slti", lt_zero.name, operand.reg, 0))
        dest == next_var_name(g2)
    IN [reg |-> dest.name, g |-> Emit(dest.g, BinOp("xor", dest.name, lt_one.name, lt_zero.name))]

Gen_visit_let(e, g) ==
    LET value == Gen_accept(e.exp_def, g)
        g1 == IF e.exp_def.k = "Fn"
              THEN \* visit_fn has just stored a closure tuple under value.reg
                   [value.g EXCEPT !.prog =
                       set_val_closure(@, e.identifier, value.g.prog.clos[value.reg])]
              ELSE Emit(value.g, BinOp("add", e.identifier, value.reg, "x0"))
    IN Gen_accept(e.exp_body, g1)

Gen_visit_ifThenElse_two_dests(e, g) ==
    LET c == Gen_accept(e.cond, g)
        beq == Here(c.g)
        g1 == Emit(c.g, Beq(c.reg, "x0", None))
        t == Gen_accept(e.e0, g1)
        dest == next_var_name(t.g)
        g2 == Emit(dest.g, BinOp("add", dest.name, t.reg, "x0"))
        jmp == Here(g2)
        g3 == Emit(g2, Jal("x0", None))
        g4 == Patch(g3, beq)
        f == Gen_accept(e.e1, g4)
        other == next_var_name(f.g)
        g5 == Emit(other.g, BinOp("add", other.name, f.reg, "x0"))
    IN [reg |-> dest.name, g |-> Patch(g5, jmp)]

Gen_visit_ifThenElse_unpatched(e, g) ==
    LET c == Gen_accept(e.cond, g)
        beq == Here(c.g)
        g1 == Emit(c.g, Beq(c.reg, "x0", None))
        t == Gen_accept(e.e0, g1)
        dest == next_var_name(t.g)
        g2 == Emit(dest.g, BinOp("add", dest.name, t.reg, "x0"))
        g3 == Emit(g2, Jal("x0", None))
        g4 == Patch(g3, beq)
        f == Gen_accept(e.e1, g4)
    IN [reg |-> dest.name, g |-> Emit(f.g, BinOp("add", dest.name, f.reg, "x0"))]

Gen_visit_ifThenElse(e, g) ==
    LET c == Gen_accept(e.cond, g)
        beq == Here(c.g)
        g1 == Emit(c.g, Beq(c.reg, "x0", None))
        t == Gen_accept(e.e0, g1)
        dest == next_var_name(t.g)
        g2 == Emit(dest.g, BinOp("add", dest.name, t.reg, "x0"))
        jmp == Here(g2)
        g3 == Emit(g2, Jal("x0", None))
        g4 == Patch(g3, beq)
        f == Gen_accept(e.e1, g4)
        g5 == Emit(f.g, BinOp("add", dest.name, f.reg, "x0"))
    IN [reg |-> dest.name, g |-> Patch(g5, jmp)]

Gen_visit_fn(e, g) ==
    LET closure_id == next_var_name(g)
        closure == [formal |-> e.formal, body |-> e.body,
                    env |-> g.prog.env, clos |-> g.prog.clos]
    IN [reg |-> closure_id.name,
        g |-> [closure_id.g EXCEPT !.prog = set_val_closure(@, closure_id.name, closure)]]

\* body.accept(RenameVisitor(), rename_map) with no copy: the renamer writes into the
\* nodes of body itself
Rename_in_place(g, body, rename_map) ==
    [exp |-> Rename_accept(body, rename_map, 0).exp,
     g |-> [g EXCEPT !.written = @ \cup {<<body, Rename_accept(body, rename_map, 0).exp>>}]]

\* body_copy = copy.deepcopy(body); body_copy.accept(RenameVisitor(), rename_map):
\* the renamer writes into the copy, and no node of body is written
Rename_copy(g, body, rename_map) ==
    [exp |-> Rename_accept(body, rename_map, 0).exp, g |-> g]

Gen_visit_app(e, g) ==
    IF e.function.k = "Fn"
    THEN LET arg == Gen_accept(e.actual, g)
             rename_map == (e.function.formal :> arg.reg)
             body_copy == Rename_copy(arg.g, e.function.body, rename_map)
         IN Gen_accept(body_copy.exp, body_copy.g)
    ELSE LET fn == Gen_accept(e.function, g)
             arg == Gen_accept(e.actual, fn.g)
             result == next_var_name(arg.g)
             fallback == [reg |-> result.name,
                          g |-> Emit(result.g, BinOp("add", result.name, fn.reg, "x0"))]
         IN IF ~InEnv(arg.g.prog, fn.reg) THEN fallback
            ELSE IF IsClosure(arg.g.prog, fn.reg)
            THEN LET closure_tuple == arg.g.prog.clos[fn.reg]
                     rename_map == (closure_tuple.formal :> arg.reg)
                     body_copy == Rename_copy(arg.g, closure_tuple.body, rename_map)
                 IN Gen_accept(body_copy.exp, body_copy.g)
            ELSE fallback

Gen_accept(e, g) ==
    CASE e.k = "Var" -> Gen_visit_var(e, g)
      [] e.k = "Bln" -> Gen_visit_bln(e, g)
      [] e.k = "Num" -> Gen_visit_num(e, g)
      [] e.k = "Eql" -> Gen_visit_eql(e, g)
      [] e.k = "And" -> Gen_visit_and(e, g)
      [] e.k = "Or" -> Gen_visit_or(e, g)
      [] e.k = "Add" -> Gen_visit_binop(e, g, "add")
      [] e.k = "Sub" -> Gen_visit_binop(e, g, "sub")
      [] e.k = "Mul" -> Gen_visit_binop(e, g, "mul")
      [] e.k = "Div" -> Gen_visit_binop(e, g, "div")
      [] e.k = "Lth" -> Gen_visit_binop(e, g, "slt")
      [] e.k = "Leq" -> Gen_visit_leq(e, g)
      [] e.k = "Neg" -> Gen_visit_neg(e, g)
      [] e.k = "Not" -> Gen_visit_not(e, g)
      [] e.k = "Let" -> Gen_visit_let(e, g)
      [] e.k = "IfThenElse" -> Gen_visit_ifThenElse(e, g)
      [] e.k = "Fn" -> Gen_visit_fn(e, g)
      [] e.k = "App" -> Gen_visit_app(e, g)

\* driver.py: the memory size the driver gives the Program
DriverMemorySize == 1000

\* driver.py: prog = Program(1000, {}, []); gen = GenVisitor(); exp.accept(gen, prog)
Generate(e) ==
    Gen_accept(e, [prog |-> ProgramInit(DriverMemorySize, <<>>, <<>>), next_var_counter |-> 0,
                   written |-> {}])

\* The expression e after the writes of written: each pair is a node of the
\* expression as it was and as the write left it
RECURSIVE Overwrite(_, _)
Overwrite(e, written) ==
    IF \E w \in written : w[1] = e THEN (CHOOSE w \in written : w[1] = e)[2]
    ELSE CASE e.k \in {"Var", "Bln", "Num"} -> e
           [] e.k \in BinaryKinds ->
                 [e EXCEPT !.left = Overwrite(@, written), !.right = Overwrite(@, written)]
           [] e.k \in UnaryKinds -> [e EXCEPT !.exp = Overwrite(@, written)]
           [] e.k = "Let" ->
                 [e EXCEPT !.exp_def = Overwrite(@, written),
                           !.exp_body = Overwrite(@, written)]
           [] e.k = "IfThenElse" ->
                 [e EXCEPT !.cond = Overwrite(@, written), !.e0 = Overwrite(@, written),
                           !.e1 = Overwrite(@, written)]
           [] e.k = "Fn" -> [e EXCEPT !.body = Overwrite(@, written)]
           [] e.k = "App" ->
                 [e EXCEPT !.function = Overwrite(@, written),
                           !.actual = Overwrite(@, written)]

(***************************************************************************)
(* Visitor.py (Vpl9): EvalVisitor, the tree-walking evaluator.  A Python   *)
(* value is tagged with its type: [t |-> "int", v], [t |-> "bool", v],     *)
(* [t |-> "Function", formal, body, env]; [t |-> "exit", msg] stands for   *)
(* the end of the process by sys.exit(msg) or by an uncaught exception.    *)
(***************************************************************************)
IntV(n) == [t |-> "int", v |-> n]

BoolV(b) == [t |-> "bool", v |-> b]

FunctionV(formal, body, e) == [t |-> "Function", formal |-> formal, body |-> body, env |-> e]

Exit(msg) == [t |-> "exit", msg |-> msg]

RECURSIVE Eval_accept(_, _)

Eval_visit_var(e, ev) ==
    IF e.identifier \in DOMAIN ev THEN ev[e.identifier] ELSE Exit("Def error")

Eval_visit_eql(e, ev) ==
    LET left == Eval_accept(e.left, ev) IN
    IF left.t = "exit" THEN left
    ELSE LET right == Eval_accept(e.right, ev) IN
         IF right.t = "exit" THEN right
         ELSE IF left.t \in {"int", "bool"} /\ right.t = left.t
         THEN BoolV(left.v = right.v)
         ELSE Exit("Type error")

\* visit_add, visit_sub, visit_mul, visit_div, visit_leq, visit_lth
Eval_visit_arith(e, ev) ==
    LET left == Eval_accept(e.left, ev) IN
    IF left.t = "exit" THEN left
    ELSE LET right == Eval_accept(e.right, ev) IN
         IF right.t = "exit" THEN right
         ELSE IF left.t = "int" /\ right.t = "int"
         THEN CASE e.k = "Add" -> IntV(left.v + right.v)
                [] e.k = "Sub" -> IntV(left.v - right.v)
                [] e.k = "Mul" -> IntV(left.v * right.v)
                [] e.k = "Div" -> IF right.v = 0 THEN Exit("ZeroDivisionError")
                                  ELSE IntV(PyFloorDiv(left.v, right.v))
                [] e.k = "Leq" -> BoolV(left.v <= right.v)
                [] e.k = "Lth" -> BoolV(left.v < right.v)
         ELSE Exit("Type error")

Eval_visit_neg(e, ev) ==
    LET value == Eval_accept(e.exp, ev) IN
    IF value.t = "exit" THEN value
    ELSE IF value.t = "int" THEN IntV(-value.v) ELSE Exit("Type error")

Eval_visit_not(e, ev) ==
    LET value == Eval_accept(e.exp, ev) IN
    IF value.t = "exit" THEN value
    ELSE IF value.t = "bool" THEN BoolV(~value.v) ELSE Exit("Type error")

Eval_visit_let(e, ev) ==
    LET value == Eval_accept(e.exp_def, ev) IN
    IF value.t = "exit" THEN value
    ELSE Eval_accept(e.exp_body, Extend(ev, e.identifier, value))

Eval_visit_ifThenElse(e, ev) ==
    LET cond == Eval_accept(e.cond, ev) IN
    IF cond.t = "exit" THEN cond
    ELSE IF cond.t # "bool" THEN Exit("Type error")
    ELSE IF cond.v THEN Eval_accept(e.e0, ev) ELSE Eval_accept(e.e1, ev)

Eval_visit_or(e, ev) ==
    LET left == Eval_accept(e.left, ev) IN
    IF left.t = "exit" THEN left
    ELSE IF left.t # "bool" THEN Exit("Type error")
    ELSE IF left.v THEN BoolV(TRUE)
    ELSE LET right == Eval_accept(e.right, ev) IN
         IF right.t = "exit" THEN right
         ELSE IF right.t # "bool" THEN Exit("Type error") ELSE right

Eval_visit_and(e, ev) ==
    LET left == Eval_accept(e.left, ev) IN
    IF left.t = "exit" THEN left
    ELSE IF left.t # "bool" THEN Exit("Type error")
    ELSE IF ~left.v THEN BoolV(FALSE)
    ELSE LET right == Eval_accept(e.right, ev) IN
         IF right.t = "exit" THEN right
         ELSE IF right.t # "bool" THEN Exit("Type error") ELSE right

Eval_visit_fn(e, ev) == FunctionV(e.formal, e.body, ev)

Eval_visit_app(e, ev) ==
    LET func_val == Eval_accept(e.function, ev) IN
    IF func_val.t = "exit" THEN func_val
    ELSE LET param_val == Eval_accept(e.actual, ev) IN
         IF param_val.t = "exit" THEN param_val
         ELSE IF func_val.t = "Function"
         THEN Eval_accept(func_val.body, Extend(func_val.env, func_val.formal, param_val))
         ELSE Exit("Type error: not a function")

Eval_accept(e, ev) ==
    CASE e.k = "Var" -> Eval_visit_var(e, ev)
      [] e.k = "Bln" -> BoolV(e.bln)
      [] e.k = "Num" -> IntV(e.num)
      [] e.k = "Eql" -> Eval_visit_eql(e, ev)
      [] e.k \in {"Add", "Sub", "Mul", "Div", "Leq", "Lth"} -> Eval_visit_arith(e, ev)
      [] e.k = "Neg" -> Eval_visit_neg(e, ev)
      [] e.k = "Not" -> Eval_visit_not(e, ev)
      [] e.k = "Let" -> Eval_visit_let(e, ev)
      [] e.k = "IfThenElse" -> Eval_visit_ifThenElse(e, ev)
      [] e.k = "Or" -> Eval_visit_or(e, ev)
      [] e.k = "And" -> Eval_visit_and(e, ev)
      [] e.k = "Fn" -> Eval_visit_fn(e, ev)
      [] e.k = "App" -> Eval_visit_app(e, ev)

(***************************************************************************)
(* Lexer.py (Vpl14).  A character is a string of length 1, the source a    *)
(* sequence of characters; a token is [text, kind], text the sequence of   *)
(* the characters it spans and kind the name of its TokenType.             *)
(***************************************************************************)
Token(tokenText, tokenKind) == [text |-> tokenText, kind |-> tokenKind]

\* str.isdigit and str.isalpha, on the ASCII characters
Digits == {"0", "1", "2", "3", "4", "5", "6", "7", "8", "9"}

Letters ==
    {"a", "b", "c", "d", "e", "f", "g", "h", "i", "j", "k", "l", "m",
     "n", "o", "p", "q", "r", "s", "t", "u", "v", "w", "x", "y", "z",
     "A", "B", "C", "D", "E", "F", "G", "H", "I", "J", "K", "L", "M",
     "N", "O", "P", "Q", "R", "S", "T", "U", "V", "W", "X", "Y", "Z"}

isdigit(c) == c \in Digits

isalpha(c) == c \in Letters

isalnum(c) == c \in Letters \cup Digits

\* The Python string that a sequence of characters spells
RECURSIVE Join(_)
Join(cs) == IF cs = <<>> THEN "" ELSE Head(cs) \o Join(Tail(cs))

\* The dictionary keywords of getToken
keywords ==
    ("let" :> "LET") @@ ("in" :> "INX") @@ ("end" :> "END") @@ ("true" :> "TRU")
    @@ ("false" :> "FLS") @@ ("if" :> "IFX") @@ ("then" :> "THN") @@ ("else" :> "ELS")
    @@ ("or" :> "ORX") @@ ("and" :> "AND") @@ ("not" :> "NOT") @@ ("fn" :> "FNX")
    @@ ("int" :> "INT") @@ ("bool" :> "LGC")

\* "\0", what _peek and _peek_next return past the end of the source
EndChar == "NUL"

\* _peek with self.position = pos (positions count from 0)
Lexer_peek(text, pos) == IF pos >= Len(text) THEN EndChar ELSE text[pos + 1]

Lexer_peek_next(text, pos) == IF pos + 1 >= Len(text) THEN EndChar ELSE text[pos + 2]

\* source[start:stop]
Slice(text, start, stop) == SubSeq(text, start + 1, stop)

\* while self.position < self.length and source[position] != "\n": position += 1
RECURSIVE LineEnd(_, _)
LineEnd(text, pos) ==
    IF pos < Len(text) /\ text[pos + 1] # "\n" THEN LineEnd(text, pos + 1) ELSE pos

\* The search for "*)": the position after it, or None when the loop runs out
RECURSIVE BlockEnd(_, _)
BlockEnd(text, pos) ==
    IF pos < Len(text) - 1
    THEN IF text[pos + 1] = "*" /\ text[pos + 2] = ")" THEN Some(pos + 2)
         ELSE BlockEnd(text, pos + 1)
    ELSE None

RECURSIVE DigitsEnd(_, _)
DigitsEnd(text, pos) ==
    IF pos < Len(text) /\ isdigit(text[pos + 1]) THEN DigitsEnd(text, pos + 1) ELSE pos

\* An identifier loop that stops at the first character that is not a letter
RECURSIVE WordEnd_letters(_, _)
WordEnd_letters(text, pos) ==
    IF pos < Len(text) /\ isalpha(text[pos + 1]) THEN WordEnd_letters(text, pos + 1) ELSE pos

RECURSIVE WordEnd(_, _)
WordEnd(text, pos) ==
    IF pos < Len(text) /\ (isalnum(text[pos + 1]) \/ text[pos + 1] = "_")
    THEN WordEnd(text, pos + 1) ELSE pos

Got_past(tokenText, tokenKind, pos) ==
    [token |-> Token(tokenText, tokenKind), position |-> pos + 1, error |-> ""]

\* A token returned with the lexer left at position pos
Got(tokenText, tokenKind, pos) ==
    [token |-> Token(tokenText, tokenKind), position |-> pos, error |-> ""]

\* raise ValueError(msg)
LexError(msg, pos) == [token |-> None, position |-> pos, error |-> msg]

\* Operators and delimiters read one character at a time, with no look at the next one
Lexer_operator_single(text, current_char, pos) ==
    CASE current_char = "+" -> Got(<<"+">>, "ADD", pos)
      [] current_char = "-" -> Got(<<"-">>, "SUB", pos)
      [] current_char = "*" -> Got(<<"*">>, "MUL", pos)
      [] current_char = "/" -> Got(<<"/">>, "DIV", pos)
      [] current_char = "<" -> Got(<<"<">>, "LTH", pos)
      [] current_char = "=" -> Got(<<"=">>, "EQL", pos)
      [] current_char = "~" -> Got(<<"~">>, "NEG", pos)
      [] current_char = ":" -> Got(<<":">>, "COL", pos)
      [] current_char = "(" -> Got(<<"(">>, "LPR", pos)
      [] current_char = ")" -> Got(<<")">>, "RPR", pos)
      [] OTHER -> LexError("Unexpected character: " \o current_char, pos)

\* The operators and delimiters, current_char already consumed: pos is past it
Lexer_operator(text, current_char, pos) ==
    LET next == Lexer_peek(text, pos) IN
    CASE current_char = "+" -> Got(<<"+">>, "ADD", pos)
      [] current_char = "-" ->
            IF next = ">" THEN Got(<<"-", ">">>, "TPF", pos + 1) ELSE Got(<<"-">>, "SUB", pos)
      [] current_char = "*" -> Got(<<"*">>, "MUL", pos)
      [] current_char = "/" -> Got(<<"/">>, "DIV", pos)
      [] current_char = "<" ->
            IF next = "-" THEN Got(<<"<", "-">>, "ASN", pos + 1)
            ELSE IF next = "=" THEN Got(<<"<", "=">>, "LEQ", pos + 1)
            ELSE Got(<<"<">>, "LTH", pos)
      [] current_char = "=" ->
            IF next = ">" THEN Got(<<"=", ">">>, "ARW", pos + 1)
            ELSE IF next = "=" THEN Got(<<"=", "=">>, "EQL", pos + 1)
            ELSE Got(<<"=">>, "EQL", pos)
      [] current_char = "~" -> Got(<<"~">>, "NEG", pos)
      [] current_char = ":" -> Got(<<":">>, "COL", pos)
      [] current_char = "(" -> Got(<<"(">>, "LPR", pos)
      [] current_char = ")" -> Got(<<")">>, "RPR", pos)
      [] OTHER -> LexError("Unexpected character: " \o current_char, pos)

\* getToken with self.source = text and self.position = pos
getToken(text, pos) ==
    IF pos >= Len(text) THEN Got(<<>>, "EOF", pos)
    ELSE LET current_char == Lexer_peek(text, pos) IN
    IF current_char = "\n" THEN Got(<<"\n">>, "NLN", pos + 1)
    ELSE IF current_char \in {" ", "\t", "\r"} THEN Got(<<current_char>>, "WSP", pos + 1)
    ELSE IF current_char = "-" /\ Lexer_peek_next(text, pos) = "-"
    THEN LET stop == LineEnd(text, pos + 2) IN Got(Slice(text, pos, stop), "COM", stop)
    ELSE IF current_char = "(" /\ Lexer_peek_next(text, pos) = "*"
    THEN LET stop == BlockEnd(text, pos + 2) IN
         IF stop = None THEN LexError("Unterminated block comment", pos)
         ELSE Got(Slice(text, pos, stop[1]), "COM", stop[1])
    ELSE IF isdigit(current_char)
    THEN LET stop == DigitsEnd(text, pos) IN Got(Slice(text, pos, stop), "NUM", stop)
    ELSE IF isalpha(current_char)
    THEN LET stop == WordEnd(text, pos)
             word == Join(Slice(text, pos, stop))
         IN Got(Slice(text, pos, stop),
                IF word \in DOMAIN keywords THEN keywords[word] ELSE "VAR", stop)
    ELSE Lexer_operator(text, current_char, pos + 1)

(***************************************************************************)
(* Parser.py (Vpl14).  A parsing method takes the token buffer and the     *)
(* value of cur_token_idx and gives [ok |-> TRUE, exp, idx], the expression*)
(* it returns and cur_token_idx afterwards, or [ok |-> FALSE, msg, idx]    *)
(* when _error ended the process with cur_token_idx = idx.                 *)
(***************************************************************************)
Parsed(e, idx) == [ok |-> TRUE, exp |-> e, idx |-> idx]

\* _error(message): sys.exit("Parse error: " + message)
Parser_error(message, idx) == [ok |-> FALSE, msg |-> "Parse error: " \o message, idx |-> idx]

\* Parser.__init__: the tokens, then one EOF token
Parser_tokens(yielded) == Append(yielded, Token(<<>>, "EOF"))

Parser_current(toks, idx) == toks[idx + 1]

Parser_advance(toks, idx) == IF idx < Len(toks) - 1 THEN idx + 1 ELSE idx

\* An _expect that lets any token stand for the one expected
Parser_expect_lenient(toks, idx, token_type) ==
    Parsed(Parser_current(toks, idx),
           IF Parser_current(toks, idx).kind = token_type
           THEN Parser_advance(toks, idx) ELSE idx)

\* _expect(token_type): the token is returned in the field exp
Parser_expect(toks, idx, token_type) ==
    IF Parser_current(toks, idx).kind # token_type
    THEN Parser_error("Expected " \o token_type, idx)
    ELSE Parsed(Parser_current(toks, idx), Parser_advance(toks, idx))

\* int(token.text) on a sequence of decimal digits
RECURSIVE PyInt(_)
PyInt(cs) ==
    IF cs = <<>> THEN 0
    ELSE 10 * PyInt(SubSeq(cs, 1, Len(cs) - 1))
         + (CHOOSE n \in 0 .. 9 : ToString(n) = cs[Len(cs)])

RECURSIVE parse_expression(_, _)
RECURSIVE parse_or(_, _)
RECURSIVE parse_or_loop(_, _, _)
RECURSIVE parse_and(_, _)
RECURSIVE parse_and_loop(_, _, _)
RECURSIVE parse_let(_, _)
RECURSIVE parse_lambda(_, _)
RECURSIVE parse_equality(_, _)
RECURSIVE parse_equality_loop(_, _, _)
RECURSIVE parse_comparison(_, _)
RECURSIVE parse_comparison_loop(_, _, _)
RECURSIVE parse_application(_, _)
RECURSIVE parse_application_loop(_, _, _)
RECURSIVE parse_additive(_, _)
RECURSIVE parse_additive_loop(_, _, _)
RECURSIVE parse_multiplicative(_, _)
RECURSIVE parse_multiplicative_loop(_, _, _)
RECURSIVE parse_unary(_, _)
RECURSIVE parse_primary(_, _)

\* The value of an expression evaluated once: Only({F(x) : x \in {e}}) is F(e)
Only(S) == CHOOSE x \in S : TRUE

\* if cond then e0 else e1 end, the branch of _parse_expression taken on IFX
parse_if(toks, idx) ==
    Only({IF ~cond.ok THEN cond ELSE
    Only({IF ~thn.ok THEN thn ELSE
    Only({IF ~e0.ok THEN e0 ELSE
    Only({IF ~els.ok THEN els ELSE
    Only({IF ~e1.ok THEN e1 ELSE
    Only({IF ~end.ok THEN end ELSE Parsed(IfThenElse(cond.exp, e0.exp, e1.exp), end.idx)
        : end \in {Parser_expect(toks, e1.idx, "END")}})
        : e1 \in {parse_expression(toks, els.idx)}})
        : els \in {Parser_expect(toks, e0.idx, "ELS")}})
        : e0 \in {parse_expression(toks, thn.idx)}})
        : thn \in {Parser_expect(toks, cond.idx, "THN")}})
        : cond \in {parse_or(toks, Parser_advance(toks, idx))}})

parse_expression(toks, idx) ==
    IF Parser_current(toks, idx).kind = "IFX" THEN parse_if(toks, idx)
    ELSE IF Parser_current(toks, idx).kind = "FNX" THEN parse_lambda(toks, idx)
    ELSE parse_or(toks, idx)

parse_or_loop(toks, left, idx) ==
    IF Parser_current(toks, idx).kind = "ORX"
    THEN Only({IF ~right.ok THEN right
               ELSE parse_or_loop(toks, BinaryExpression("Or", left, right.exp), right.idx)
                 : right \in {parse_and(toks, Parser_advance(toks, idx))}})
    ELSE Parsed(left, idx)

parse_or(toks, idx) ==
    Only({IF ~left.ok THEN left ELSE parse_or_loop(toks, left.exp, left.idx)
            : left \in {parse_and(toks, idx)}})

parse_and_loop(toks, left, idx) ==
    IF Parser_current(toks, idx).kind = "AND"
    THEN Only({IF ~right.ok THEN right
               ELSE parse_and_loop(toks, BinaryExpression("And", left, right.exp), right.idx)
                 : right \in {parse_equality(toks, Parser_advance(toks, idx))}})
    ELSE Parsed(left, idx)

parse_and(toks, idx) ==
    Only({IF ~left.ok THEN left ELSE parse_and_loop(toks, left.exp, left.idx)
            : left \in {parse_equality(toks, idx)}})

parse_let(toks, idx) ==
    Only({IF ~let.ok THEN let ELSE
    Only({IF ~identifier.ok THEN identifier ELSE
    Only({IF ~asn.ok THEN asn ELSE
    Only({IF ~exp_def.ok THEN exp_def ELSE
    Only({IF ~inx.ok THEN inx ELSE
    Only({IF ~exp_body.ok THEN exp_body ELSE
    Only({IF ~end.ok THEN end
          ELSE Parsed(Let(Join(identifier.exp.text), exp_def.exp, exp_body.exp), end.idx)
        : end \in {Parser_expect(toks, exp_body.idx, "END")}})
        : exp_body \in {parse_expression(toks, inx.idx)}})
        : inx \in {Parser_expect(toks, exp_def.idx, "INX")}})
        : exp_def \in {parse_expression(toks, asn.idx)}})
        : asn \in {Parser_expect(toks, identifier.idx, "ASN")}})
        : identifier \in {Parser_expect(toks, let.idx, "VAR")}})
        : let \in {Parser_expect(toks, idx, "LET")}})

parse_lambda(toks, idx) ==
    Only({IF ~fnx.ok THEN fnx ELSE
    Only({IF ~formal.ok THEN formal ELSE
    Only({IF ~arw.ok THEN arw ELSE
    Only({IF ~body.ok THEN body ELSE Parsed(Fn(Join(formal.exp.text), body.exp), body.idx)
        : body \in {parse_expression(toks, arw.idx)}})
        : arw \in {Parser_expect(toks, formal.idx, "ARW")}})
        : formal \in {Parser_expect(toks, fnx.idx, "VAR")}})
        : fnx \in {Parser_expect(toks, idx, "FNX")}})

parse_equality_loop(toks, left, idx) ==
    IF Parser_current(toks, idx).kind = "EQL"
    THEN Only({IF ~right.ok THEN right
               ELSE parse_equality_loop(toks, BinaryExpression("Eql", left, right.exp),
                                        right.idx)
                 : right \in {parse_comparison(toks, Parser_advance(toks, idx))}})
    ELSE Parsed(left, idx)

parse_equality(toks, idx) ==
    Only({IF ~left.ok THEN left ELSE parse_equality_loop(toks, left.exp, left.idx)
            : left \in {parse_comparison(toks, idx)}})

parse_comparison_loop(toks, left, idx) ==
    IF Parser_current(toks, idx).kind \in {"LEQ", "LTH"}
    THEN Only({IF ~right.ok THEN right
               ELSE parse_comparison_loop(
                       toks,
                       BinaryExpression(IF Parser_current(toks, idx).kind = "LEQ"
                                        THEN "Leq" ELSE "Lth", left, right.exp),
                       right.idx)
                 : right \in {parse_additive(toks, Parser_advance(toks, idx))}})
    ELSE Parsed(left, idx)

parse_comparison(toks, idx) ==
    Only({IF ~left.ok THEN left ELSE parse_comparison_loop(toks, left.exp, left.idx)
            : left \in {parse_additive(toks, idx)}})

is_application_start(toks, idx) ==
    Parser_current(toks, idx).kind
        \in {"NUM", "TRU", "FLS", "VAR", "LPR", "LET", "FNX", "NEG", "NOT"}

parse_application_loop(toks, left, idx) ==
    IF is_application_start(toks, idx)
    THEN Only({IF ~right.ok THEN right
               ELSE parse_application_loop(toks, App(left, right.exp), right.idx)
                 : right \in {parse_multiplicative(toks, idx)}})
    ELSE Parsed(left, idx)

parse_application(toks, idx) ==
    Only({IF ~left.ok THEN left ELSE parse_application_loop(toks, left.exp, left.idx)
            : left \in {parse_multiplicative(toks, idx)}})

parse_additive_loop(toks, left, idx) ==
    IF Parser_current(toks, idx).kind \in {"ADD", "SUB"}
    THEN Only({IF ~right.ok THEN right
               ELSE parse_additive_loop(
                       toks,
                       BinaryExpression(IF Parser_current(toks, idx).kind = "ADD"
                                        THEN "Add" ELSE "Sub", left, right.exp),
                       right.idx)
                 : right \in {parse_application(toks, Parser_advance(toks, idx))}})
    ELSE Parsed(left, idx)

\* A _parse_additive that groups to the right
parse_additive_right(toks, idx) ==
    Only({IF ~left.ok \/ Parser_current(toks, left.idx).kind \notin {"ADD", "SUB"} THEN left
          ELSE Only({IF ~right.ok THEN right
                     ELSE Parsed(BinaryExpression(
                                    IF Parser_current(toks, left.idx).kind = "ADD"
                                    THEN "Add" ELSE "Sub", left.exp, right.exp), right.idx)
                       : right \in {parse_additive(toks, Parser_advance(toks, left.idx))}})
            : left \in {parse_application(toks, idx)}})

parse_additive(toks, idx) ==
    Only({IF ~left.ok THEN left ELSE parse_additive_loop(toks, left.exp, left.idx)
            : left \in {parse_application(toks, idx)}})

parse_multiplicative_loop(toks, left, idx) ==
    IF Parser_current(toks, idx).kind \in {"MUL", "DIV"}
    THEN Only({IF ~right.ok THEN right
               ELSE parse_multiplicative_loop(
                       toks,
                       BinaryExpression(IF Parser_current(toks, idx).kind = "MUL"
                                        THEN "Mul" ELSE "Div", left, right.exp),
                       right.idx)
                 : right \in {parse_unary(toks, Parser_advance(toks, idx))}})
    ELSE Parsed(left, idx)

parse_multiplicative(toks, idx) ==
    Only({IF ~left.ok THEN left ELSE parse_multiplicative_loop(toks, left.exp, left.idx)
            : left \in {parse_unary(toks, idx)}})

parse_unary(toks, idx) ==
    IF Parser_current(toks, idx).kind \in {"NEG", "NOT"}
    THEN Only({IF ~operand.ok THEN operand
               ELSE Parsed(UnaryExpression(IF Parser_current(toks, idx).kind = "NEG"
                                           THEN "Neg" ELSE "Not", operand.exp), operand.idx)
                 : operand \in {parse_unary(toks, Parser_advance(toks, idx))}})
    ELSE parse_primary(toks, idx)

parse_primary(toks, idx) ==
    Only({
    CASE token.kind = "NUM" -> Parsed(Num(PyInt(token.text)), Parser_advance(toks, idx))
      [] token.kind = "TRU" -> Parsed(Bln(TRUE), Parser_advance(toks, idx))
      [] token.kind = "FLS" -> Parsed(Bln(FALSE), Parser_advance(toks, idx))
      [] token.kind = "VAR" -> Parsed(Var(Join(token.text)), Parser_advance(toks, idx))
      [] token.kind = "LPR" ->
            Only({IF ~expr.ok THEN expr ELSE
            Only({IF ~rpr.ok THEN rpr ELSE Parsed(expr.exp, rpr.idx)
                : rpr \in {Parser_expect(toks, expr.idx, "RPR")}})
                : expr \in {parse_expression(toks, Parser_advance(toks, idx))}})
      [] token.kind = "LET" -> parse_let(toks, idx)
      [] token.kind = "FNX" -> parse_lambda(toks, idx)
      [] token.kind = "IFX" -> parse_expression(toks, idx)
      [] OTHER -> Parser_error("Unexpected token", idx)
        : token \in {Parser_current(toks, idx)}})

\* Parser.parse
parse(toks) ==
    Only({IF ~expr.ok THEN expr ELSE
    Only({IF ~eof.ok THEN eof ELSE Parsed(expr.exp, eof.idx)
        : eof \in {Parser_expect(toks, expr.idx, "EOF")}})
        : expr \in {parse_expression(toks, 0)}})

(***************************************************************************)
(* Type inference: the constraint generators of Vpl9 and Vpl7 and the      *)
(* unifier of Vpl7.  A constraint is a pair of type names; a type name is  *)
(* an identifier, a type variable TV_n or a Python type.                   *)
(***************************************************************************)
\* type(1), type(True) and the type of a set of constraints
IntType == "<class 'int'>"

BoolType == "<class 'bool'>"

SetType == "<class 'set'>"

\* fresh_type_var with fresh_type_counter = counter before the call; the counter is
\* counter + 1 after it
fresh_type_var(counter) == "TV_" \o ToString(counter + 1)

\* The constraints a visit returns and the counter it leaves
Ctrs(ctrs, counter) == [ctrs |-> ctrs, counter |-> counter]

RECURSIVE Ctr_accept(_, _, _)

\* visit_and ... visit_not of Vpl9: both operands against operand_type
Ctr_visit_binary(e, type_var, counter, operand_type, result_type) ==
    Only({Only({Ctrs(left.ctrs \cup right.ctrs \cup {<<result_type, type_var>>},
                     right.counter)
                  : right \in {Ctr_accept(e.right, operand_type, left.counter)}})
            : left \in {Ctr_accept(e.left, operand_type, counter)}})

Ctr_visit_unary(e, type_var, counter, operand_type) ==
    Only({Ctrs(arg.ctrs \cup {<<operand_type, type_var>>}, arg.counter)
            : arg \in {Ctr_accept(e.exp, operand_type, counter)}})

Ctr_visit_eql(e, type_var, counter) ==
    Ctr_visit_binary(e, type_var, counter + 1, fresh_type_var(counter), BoolType)

Ctr_visit_let(e, type_var, counter) ==
    Only({Only({Ctrs(K0.ctrs \cup K1.ctrs \cup {<<fresh_type_var(K0.counter), type_var>>},
                     K1.counter)
                  : K1 \in {Ctr_accept(e.exp_body, fresh_type_var(K0.counter),
                                       K0.counter + 1)}})
            : K0 \in {Ctr_accept(e.exp_def, e.identifier, counter)}})

Ctr_visit_ifThenElse(e, type_var, counter) ==
    Only({Only({Only({
        Ctrs(cond.ctrs \cup thn.ctrs \cup els.ctrs
                \cup {<<fresh_type_var(cond.counter), type_var>>}, els.counter)
            : els \in {Ctr_accept(e.e1, fresh_type_var(cond.counter), thn.counter)}})
            : thn \in {Ctr_accept(e.e0, fresh_type_var(cond.counter), cond.counter + 1)}})
            : cond \in {Ctr_accept(e.cond, BoolType, counter)}})

\* TV_param = fresh (unused), TV_body = fresh
Ctr_visit_fn(e, type_var, counter) ==
    Only({Ctrs(body_constraints.ctrs \cup {<<fresh_type_var(counter + 1), type_var>>},
               body_constraints.counter)
            : body_constraints \in {Ctr_accept(e.body, fresh_type_var(counter + 1),
                                               counter + 2)}})

\* TV_func = fresh, TV_arg = fresh
Ctr_visit_app(e, type_var, counter) ==
    Only({Only({Ctrs(func_constraints.ctrs \cup arg_constraints.ctrs
                        \cup {<<fresh_type_var(counter), type_var>>},
                     arg_constraints.counter)
                  : arg_constraints \in {Ctr_accept(e.actual, fresh_type_var(counter + 1),
                                                    func_constraints.counter)}})
            : func_constraints \in {Ctr_accept(e.function, fresh_type_var(counter),
                                               counter + 2)}})

\* exp.accept(ev, type_var) for the CtrGenVisitor ev of Vpl9
Ctr_accept(e, type_var, counter) ==
    CASE e.k = "Var" -> Ctrs({<<e.identifier, type_var>>}, counter)
      [] e.k = "Bln" -> Ctrs({<<BoolType, type_var>>}, counter)
      [] e.k = "Num" -> Ctrs({<<IntType, type_var>>}, counter)
      [] e.k = "Eql" -> Ctr_visit_eql(e, type_var, counter)
      [] e.k \in {"And", "Or"} -> Ctr_visit_binary(e, type_var, counter, BoolType, BoolType)
      [] e.k \in {"Add", "Sub", "Mul", "Div"} ->
            Ctr_visit_binary(e, type_var, counter, IntType, IntType)
      [] e.k \in {"Leq", "Lth"} -> Ctr_visit_binary(e, type_var, counter, IntType, BoolType)
      [] e.k = "Neg" -> Ctr_visit_unary(e, type_var, counter, IntType)
      [] e.k = "Not" -> Ctr_visit_unary(e, type_var, counter, BoolType)
      [] e.k = "Let" -> Ctr_visit_let(e, type_var, counter)
      [] e.k = "IfThenElse" -> Ctr_visit_ifThenElse(e, type_var, counter)
      [] e.k = "Fn" -> Ctr_visit_fn(e, type_var, counter)
      [] e.k = "App" -> Ctr_visit_app(e, type_var, counter)

\* A call that raised, and one that returned
Raise(exception) == [raised |-> TRUE, error |-> exception]

Returned(value) == [raised |-> FALSE, value |-> value]

\* exp.accept(ev, type_var) for the CtrGenVisitor ev of Vpl7, which draws no fresh
\* type variable in the methods that it implements
RECURSIVE Ctr7_accept(_, _)
Ctr7_accept(e, type_var) ==
    CASE e.k = "Var" -> Returned({<<e.identifier, type_var>>})
      [] e.k = "Bln" -> Returned({<<BoolType, type_var>>})
      [] e.k = "Num" -> Returned({<<IntType, type_var>>})
      [] e.k = "Eql" ->
            Only({IF left.raised THEN left ELSE
            Only({IF right.raised THEN right ELSE Returned({<<SetType, SetType>>})
                : right \in {Ctr7_accept(e.right, type_var)}})
                : left \in {Ctr7_accept(e.left, type_var)}})
      [] OTHER -> Raise("NotImplementedError")

\* Unifier.unify and Unifier.name_sets of Vpl7
unify(ctrs, sets) == Raise("NotImplementedError")

name_sets(sets) == Raise("NotImplementedError")

\* CtrGenVisitor() in Vpl7: the class leaves the abstract method visit_if of Visitor
\* without an implementation (it defines visit_ifThenElse), so it has no instances
CtrGenVisitor_init == Raise("TypeError")

\* Unifier.infer_types
infer_types(expression) ==
    Only({IF ev.raised THEN ev ELSE
    Only({IF cs.raised THEN cs ELSE
    Only({IF type_sets.raised THEN type_sets ELSE name_sets(type_sets.value)
        : type_sets \in {unify(cs.value, <<>>)}})
        : cs \in {Ctr7_accept(expression, fresh_type_var(0))}})
        : ev \in {CtrGenVisitor_init}})

\* The Program object the variables hold
Prog == [insts |-> insts, env |-> env, clos |-> clos, mem |-> mem, pc |-> pc, error |-> error]

(***************************************************************************)
(* Program.eval, one action per statement of its loop.                     *)
(***************************************************************************)
\* inst = self.get_inst(), and the loop test "while inst"
Fetch ==
    /\ phase = "machine"
    /\ status = "running"
    /\ inst = None
    /\ LET f == get_inst(insts, pc) IN
        /\ inst' = f.inst
        /\ pc' = f.pc
        /\ status' = IF f.inst = None THEN "halted" ELSE "running"
    /\ UNCHANGED <<steps, insts, env, clos, mem, error, phase, src, exp, var_answer, answer>>
    /\ UNCHANGED <<lexerVars, typeVars>>

\* inst.eval(self)
Execute ==
    /\ phase = "machine"
    /\ status = "running"
    /\ inst # None
    /\ steps < (IF src = None THEN MaxSteps ELSE MaxGenSteps)
    /\ steps' = steps + 1
    /\ LET q == Inst_eval(inst[1], Prog) IN
        /\ env' = q.env
        /\ clos' = q.clos
        /\ mem' = q.mem
        /\ pc' = q.pc
        /\ error' = q.error
        /\ status' = IF q.error = "" THEN "running" ELSE "error"
    /\ inst' = None
    /\ UNCHANGED <<insts, phase, src, exp, var_answer, answer>>
    /\ UNCHANGED <<lexerVars, typeVars>>

(***************************************************************************)
(* The machine specification: Program(memory_size, env, insts).eval() on   *)
(* every instruction list of at most MaxInsts instructions of MachineInsts.*)
(***************************************************************************)
Vals == -MaxVal .. MaxVal

Dests == {"x0", "a"}

Labs == {None, Some(0), Some(MaxInsts)}

MachineInsts ==
    {BinOp(op, "a", "a", "b") : op \in BinOpcodes}
    \cup {BinOp("add", "x0", "a", "b")}
    \cup {BinOpImm(op, "a", "a", MaxVal) : op \in BinOpImmOpcodes}
    \cup {BinOpImm("addi", "x0", "a", MaxVal)}
    \cup {Beq("a", "b", lab) : lab \in Labs \ {None}}
    \cup {Jal(rd, lab) : rd \in Dests, lab \in Labs}
    \cup {Jalr(rd, "b", off) : rd \in Dests, off \in {0}}
    \cup {MemOp("sw", "b", off, "a") : off \in {-1, 0}}
    \cup {MemOp("lw", "b", off, rd) : off \in {-1, 0}, rd \in Dests}

RECURSIVE SeqsUpTo(_, _)
SeqsUpTo(S, n) ==
    IF n = 0 THEN {<<>>}
    ELSE LET shorter == SeqsUpTo(S, n - 1) IN
         shorter \cup {Append(s, x) : s \in shorter, x \in S}

\* The env argument of Program: a and b set, b absent, or a caller's own x0
MachineEnvs ==
    {("a" :> MaxVal) @@ ("b" :> v) : v \in Vals}
    \cup {("a" :> MaxVal)}
    \cup {("a" :> MaxVal) @@ ("b" :> 0) @@ ("x0" :> MaxVal)}

\* The Program objects of the doctests of Jal and Jalr (Asm.py, lines 257 and 303)
DoctestPrograms ==
    {ProgramInit(10, <<>>, <<Jal("a", Some(20))>>),
     ProgramInit(10, <<>>, <<Jal("x0", Some(20))>>),
     ProgramInit(10, ("b" :> 30), <<Jalr("a", "b", 20)>>),
     ProgramInit(10, ("b" :> 30), <<Jalr("x0", "b", 20)>>)}

MachinePrograms ==
    {ProgramInit(memory_size, e, is) :
        memory_size \in {0, MaxMem}, e \in MachineEnvs, is \in SeqsUpTo(MachineInsts, MaxInsts)}

InitMachine ==
    /\ \E p \in MachinePrograms \cup DoctestPrograms :
         /\ insts = p.insts
         /\ env = p.env
         /\ clos = p.clos
         /\ mem = p.mem
         /\ pc = p.pc
         /\ error = p.error
    /\ inst = None
    /\ status = "running"
    /\ steps = 0
    /\ phase = "machine"
    /\ src = None
    /\ exp = None
    /\ var_answer = None
    /\ answer = None
    /\ source = <<>>
    /\ position = 0
    /\ tokens = <<>>
    /\ cur_token_idx = 0
    /\ constraints = None
    /\ type_names = None

Next == Fetch \/ Execute

Spec == InitMachine /\ [][Next]_vars

(***************************************************************************)
(* Claims about the abstract machine (specification Spec).                 *)
(***************************************************************************)
\* The register an instruction writes (None for beq and sw)
Dest(i) ==
    IF i.op \in {"beq", "sw"} THEN None
    ELSE IF i.op = "lw" THEN Some(i.reg)
    ELSE Some(i.rd)

\* The instruction that the next step executes
Executing(op) == status = "running" /\ inst # None /\ inst[1].op = op

\* C1: x0 reads as 0 in every state of Program.eval, and the execution of an
\* instruction whose destination register is x0 leaves the register map unchanged.
C1_X0ReadOnly ==
    /\ [](("x0" \in DOMAIN env) /\ env["x0"] = 0 /\ "x0" \notin DOMAIN clos)
    /\ [][(status = "running" /\ inst # None /\ Dest(inst[1]) = Some("x0"))
            => (env' = env /\ clos' = clos)]_vars

\* C1 witness: a run halts after executing MaxInsts instructions, all of them writing x0
C1_Witness ==
    /\ status = "halted"
    /\ Len(insts) = MaxInsts
    /\ steps = MaxInsts
    /\ \A n \in 1 .. Len(insts) : Dest(insts[n]) = Some("x0")
    /\ {insts[n].op : n \in 1 .. Len(insts)} = {"add", "lw"}

\* The effective address of the sw or lw about to execute lies outside [0, memory_size)
OutOfBoundsAccess ==
    /\ status = "running"
    /\ inst # None
    /\ inst[1].op \in {"sw", "lw"}
    /\ inst[1].rs1 \in DOMAIN env
    /\ inst[1].reg \in DOMAIN env \/ inst[1].op = "lw"
    /\ LET addr == env[inst[1].rs1] + inst[1].offset IN addr < 0 \/ addr >= mem.size

\* C7: a sw or lw whose effective address is outside [0, memory_size), negative
\* addresses included, aborts with an error and changes neither memory nor registers.
C7_MemoryBounds ==
    [][OutOfBoundsAccess => (status' = "error" /\ mem' = mem /\ env' = env)]_vars

C10_DoctestReturnAddress ==
    /\ (status = "halted" /\ insts = <<Jal("a", Some(20))>>) => (pc = 20 /\ env["a"] = 2)
    /\ (status = "halted" /\ insts = <<Jalr("a", "b", 20)>> /\ env["b"] = 30)
          => (pc = 50 /\ env["a"] = 2)

\* The registers an instruction reads
Reads(i) ==
    CASE i.op = "beq" -> {i.rs1, i.rs2}
      [] i.op = "jal" -> {}
      [] i.op = "jalr" -> {i.rs}
      [] i.op = "sw" -> {i.reg, i.rs1}
      [] i.op = "lw" -> {i.rs1}
      [] i.op \in BinOpcodes -> {i.rs1, i.rs2}
      [] i.op \in BinOpImmOpcodes -> {i.rs1}

\* The instruction about to execute reads a register that holds no value
ReadsUndefined ==
    /\ status = "running"
    /\ inst # None
    /\ \E r \in Reads(inst[1]) : r \notin DOMAIN env /\ r \notin DOMAIN clos

\* C11: executing an instruction that reads a register never written stops the interpreter
\* with an undefined-register error; destination register, memory and branch target are
\* not written and no later instruction is executed.
C11_UndefinedRegister ==
    /\ [][ReadsUndefined =>
            /\ status' = "error"
            /\ error' = "Undefined register"
            /\ UNCHANGED <<env, clos, mem, pc>>]_vars
    /\ [][status # "error"]_vars

(***************************************************************************)
(* The pipeline specification: driver.py on every expression of Sources,   *)
(* from the AST the parser returns to the printed answer.                  *)
(***************************************************************************)
NumLits == {Num(n) : n \in 0 .. MaxNum}

BlnLits == {Bln(TRUE), Bln(FALSE)}

Atoms == NumLits \cup BlnLits

\* one operator over literals, ill-typed combinations included
Operations ==
    {BinaryExpression(k, a, b) : k \in BinaryKinds, a \in Atoms, b \in Atoms}
    \cup {UnaryExpression(k, a) : k \in UnaryKinds, a \in Atoms}

Conds ==
    BlnLits \cup {BinaryExpression("Lth", n, Num(1)) : n \in NumLits}
    \cup {UnaryExpression("Not", b) : b \in BlnLits}

\* boolean expressions that divide, some of them by zero
Partial == {BinaryExpression("Eql", BinaryExpression("Div", Num(1), n), Num(1)) : n \in NumLits}

ShortCircuits ==
    {BinaryExpression(k, c, r) : k \in {"And", "Or"}, c \in Conds, r \in Conds \cup Partial}
    \cup {BinaryExpression(k, BinaryExpression(j, a, b), r) :
            k \in {"And", "Or"}, j \in {"And", "Or"}, a \in BlnLits, b \in BlnLits \cup Partial,
            r \in BlnLits \cup Partial}

Branches ==
    NumLits \cup {BinaryExpression("Div", Num(1), Num(0))}
    \cup {Let("x", Num(1), BinaryExpression("Add", Var("x"), Var("x")))}
    \cup {IfThenElse(b, Num(1), Num(2)) : b \in BlnLits}

Conditionals ==
    {IfThenElse(c, e0, e1) : c \in Conds \cup Partial \cup {Num(0), Num(1)},
                             e0 \in Branches, e1 \in Branches}

Idents == {"x", "y", "x_0"}

Uses ==
    {Var(v) : v \in Idents}
    \cup {BinaryExpression("Add", Var(v), Var(w)) : v \in Idents, w \in Idents}

Lets ==
    {Let(n, d, b) : n \in Idents, d \in {Num(1), Var("x")}, b \in Uses}
    \cup {Let(n, Num(1), Let(m, d, b)) :
            n \in Idents, m \in Idents,
            d \in {Num(2), Var("x"), BinaryExpression("Add", Var("y"), Num(1))}, b \in Uses}
    \cup {Let(n, Let(m, Num(2), Var(v)), b) :
            n \in Idents, m \in Idents, v \in {"x", "y"}, b \in {Var(w) : w \in Idents}}
    \cup {BinaryExpression("Add", Let(n, Num(1), Var(n)), Let(m, Num(2), Var(v))) :
            n \in Idents, m \in Idents, v \in Idents}

FnBodies ==
    {Var("x"),
     BinaryExpression("Mul", Var("x"), Var("x")),
     BinaryExpression("Add", Var("x"), Num(1)),
     Let("y", Var("x"), Var("y")),
     Let("y", BinaryExpression("Add", Var("x"), Num(1)), BinaryExpression("Mul", Var("y"), Var("y"))),
     IfThenElse(BinaryExpression("Lth", Var("x"), Num(1)), Num(0), Var("x")),
     BinaryExpression("And", BinaryExpression("Lth", Var("x"), Num(1)), Bln(TRUE))}

Calls ==
    {App(Var("f"), n) : n \in NumLits}
    \cup {App(Var("f"), App(Var("f"), n)) : n \in NumLits}
    \cup {BinaryExpression(k, App(Var("f"), n), App(Var("f"), m)) :
            k \in {"Add", "Sub"}, n \in NumLits, m \in NumLits}
    \cup {Let("y", App(Var("f"), n), BinaryExpression("Add", Var("y"), App(Var("f"), m))) :
            n \in NumLits, m \in NumLits}

Functions ==
    {Let("f", Fn("x", fb), c) : fb \in FnBodies, c \in Calls}
    \cup {App(Fn("x", fb), a) : fb \in FnBodies, a \in NumLits \cup {Var("x")}}
    \cup {Fn("x", fb) : fb \in FnBodies}
    \cup {Let("f", Fn("g", App(Var("g"), n)), App(Var("f"), Fn("x", fb))) :
            n \in NumLits, fb \in FnBodies}
    \cup {Let("y", n, Let("f", Fn("x", BinaryExpression("Add", Var("x"), Var("y"))),
                         App(Var("f"), m))) : n \in NumLits, m \in NumLits}
    \cup {App(App(Fn("x", Fn("y", BinaryExpression("Sub", Var("x"), Var("y")))), n), m) :
            n \in NumLits, m \in NumLits}
    \cup {App(IfThenElse(b, Fn("x", Var("x")), Fn("x", Num(0))), Num(1)) : b \in BlnLits}

Sources == Atoms \cup Operations \cup ShortCircuits \cup Conditionals \cup Lets \cup Functions

InitPipeline ==
    /\ src \in Sources
    /\ exp = src
    /\ phase = "parsed"
    /\ status = "idle"
    /\ insts = <<>>
    /\ env = <<>>
    /\ clos = <<>>
    /\ mem = [size |-> 0, cells |-> <<>>]
    /\ pc = 0
    /\ error = ""
    /\ inst = None
    /\ steps = 0
    /\ var_answer = None
    /\ answer = None
    /\ source = <<>>
    /\ position = 0
    /\ tokens = <<>>
    /\ cur_token_idx = 0
    /\ constraints = None
    /\ type_names = None

\* exp = rename_variables(parser.parse())
RenameVariables ==
    /\ phase = "parsed"
    /\ exp' = rename_variables(exp)
    /\ phase' = "renamed"
    /\ UNCHANGED <<steps, insts, env, clos, mem, pc, inst, status, error, src, var_answer, answer>>
    /\ UNCHANGED <<lexerVars, typeVars>>

\* prog = Program(...); gen = GenVisitor(); var_answer = exp.accept(gen, prog)
GenerateCode ==
    /\ phase = "renamed"
    /\ LET r == Generate(exp) IN
        /\ insts' = r.g.prog.insts
        /\ env' = r.g.prog.env
        /\ clos' = r.g.prog.clos
        /\ mem' = r.g.prog.mem
        /\ pc' = r.g.prog.pc
        /\ error' = r.g.prog.error
        /\ var_answer' = Some(r.reg)
        /\ exp' = Overwrite(exp, r.g.written)
    /\ phase' = "machine"
    /\ status' = "running"
    /\ UNCHANGED <<steps, inst, src, answer>>
    /\ UNCHANGED <<lexerVars, typeVars>>

\* print(f"Answer: {prog.get_val(var_answer)}")
PrintAnswer ==
    /\ phase = "machine"
    /\ status = "halted"
    /\ src # None
    /\ phase' = "done"
    /\ IF var_answer[1] \in DOMAIN env
       THEN answer' = Some(IntV(env[var_answer[1]])) /\ UNCHANGED <<status, error>>
       ELSE IF var_answer[1] \in DOMAIN clos
       THEN answer' = Some([t |-> "closure"]) /\ UNCHANGED <<status, error>>
       ELSE answer' = None /\ status' = "error" /\ error' = "Undefined register"
    /\ UNCHANGED <<steps, insts, env, clos, mem, pc, inst, src, exp, var_answer>>
    /\ UNCHANGED <<lexerVars, typeVars>>

NextPipeline == RenameVariables \/ GenerateCode \/ Fetch \/ Execute \/ PrintAnswer

SpecPipeline == InitPipeline /\ [][NextPipeline]_vars

(***************************************************************************)
(* Claims about the pipeline (specification SpecPipeline).                 *)
(***************************************************************************)
\* Simple types: int, bool and function types
TInt == [c |-> "int"]

TBool == [c |-> "bool"]

TFn(arg, res) == [c |-> "fn", arg |-> arg, res |-> res]

\* The types a formal parameter ranges over
ParamTypes ==
    LET base == {TInt, TBool} IN base \cup {TFn(a, r) : a \in base, r \in base}

\* The simple types of e under the typing environment tenv (empty when e has none)
RECURSIVE TypesOf(_, _)
TypesOf(e, tenv) ==
    CASE e.k = "Var" -> IF e.identifier \in DOMAIN tenv THEN {tenv[e.identifier]} ELSE {}
      [] e.k = "Num" -> {TInt}
      [] e.k = "Bln" -> {TBool}
      [] e.k \in {"Add", "Sub", "Mul", "Div"} ->
            IF TInt \in TypesOf(e.left, tenv) /\ TInt \in TypesOf(e.right, tenv)
            THEN {TInt} ELSE {}
      [] e.k \in {"Leq", "Lth"} ->
            IF TInt \in TypesOf(e.left, tenv) /\ TInt \in TypesOf(e.right, tenv)
            THEN {TBool} ELSE {}
      [] e.k = "Eql" ->
            IF \E t \in {TInt, TBool} : t \in TypesOf(e.left, tenv) /\ t \in TypesOf(e.right, tenv)
            THEN {TBool} ELSE {}
      [] e.k \in {"And", "Or"} ->
            IF TBool \in TypesOf(e.left, tenv) /\ TBool \in TypesOf(e.right, tenv)
            THEN {TBool} ELSE {}
      [] e.k = "Neg" -> IF TInt \in TypesOf(e.exp, tenv) THEN {TInt} ELSE {}
      [] e.k = "Not" -> IF TBool \in TypesOf(e.exp, tenv) THEN {TBool} ELSE {}
      [] e.k = "Let" ->
            UNION {TypesOf(e.exp_body, Extend(tenv, e.identifier, t)) :
                     t \in TypesOf(e.exp_def, tenv)}
      [] e.k = "IfThenElse" ->
            IF TBool \in TypesOf(e.cond, tenv)
            THEN TypesOf(e.e0, tenv) \cap TypesOf(e.e1, tenv) ELSE {}
      [] e.k = "Fn" ->
            UNION {{TFn(a, r) : r \in TypesOf(e.body, Extend(tenv, e.formal, a))} :
                     a \in ParamTypes}
      [] e.k = "App" ->
            {f.res : f \in {g \in TypesOf(e.function, tenv) :
                              g.c = "fn" /\ g.arg \in TypesOf(e.actual, tenv)}}

WellTyped(e) == TypesOf(e, <<>>) # {}

\* The value of the reference evaluator, true and false encoded as 1 and 0
Encoded(v) == IF v.t = "bool" THEN (IF v.v THEN 1 ELSE 0) ELSE v.v

\* C2: for a well-typed source whose evaluation divides by no zero, the pipeline
\* rename -> GenVisitor -> Program.eval ends without error and the register returned by
\* the generator holds the value of the reference EvalVisitor (true/false as 1/0).
C2_SemanticEquivalence ==
    (src # None /\ (phase = "done" \/ status = "error") /\ WellTyped(src)
       /\ Eval_accept(src, <<>>).t \in {"int", "bool"})
    => (status # "error" /\ answer = Some(IntV(Encoded(Eval_accept(src, <<>>)))))

\* The binder occurrences (Let identifiers and Fn formals) of e, in traversal order
RECURSIVE Binders(_)
Binders(e) ==
    CASE e.k \in {"Var", "Bln", "Num"} -> <<>>
      [] e.k \in BinaryKinds -> Binders(e.left) \o Binders(e.right)
      [] e.k \in UnaryKinds -> Binders(e.exp)
      [] e.k = "Let" -> <<e.identifier>> \o Binders(e.exp_def) \o Binders(e.exp_body)
      [] e.k = "IfThenElse" -> Binders(e.cond) \o Binders(e.e0) \o Binders(e.e1)
      [] e.k = "Fn" -> <<e.formal>> \o Binders(e.body)
      [] e.k = "App" -> Binders(e.function) \o Binders(e.actual)

NoDuplicates(s) == \A i, j \in 1 .. Len(s) : i # j => s[i] # s[j]

\* r has the shape of o, and every use in o of a name bound in scope carries in r the
\* new name of its innermost enclosing binder (scope: source name -> new name)
RECURSIVE Hygienic(_, _, _)
Hygienic(o, r, scope) ==
    /\ r.k = o.k
    /\ CASE o.k = "Var" ->
              o.identifier \in DOMAIN scope => r.identifier = scope[o.identifier]
         [] o.k \in {"Bln", "Num"} -> r = o
         [] o.k \in BinaryKinds ->
              Hygienic(o.left, r.left, scope) /\ Hygienic(o.right, r.right, scope)
         [] o.k \in UnaryKinds -> Hygienic(o.exp, r.exp, scope)
         [] o.k = "Let" ->
              /\ Hygienic(o.exp_def, r.exp_def, scope)
              /\ Hygienic(o.exp_body, r.exp_body, Extend(scope, o.identifier, r.identifier))
         [] o.k = "IfThenElse" ->
              /\ Hygienic(o.cond, r.cond, scope)
              /\ Hygienic(o.e0, r.e0, scope)
              /\ Hygienic(o.e1, r.e1, scope)
         [] o.k = "Fn" -> Hygienic(o.body, r.body, Extend(scope, o.formal, r.formal))
         [] o.k = "App" ->
              Hygienic(o.function, r.function, scope) /\ Hygienic(o.actual, r.actual, scope)

\* C3: after RenameVisitor has traversed an expression from the empty name map no two
\* binder occurrences have the same name, and every use that was in the scope of a binder
\* of its name carries the new name of its innermost enclosing such binder.
C3_RenamerHygiene ==
    phase = "renamed" => (NoDuplicates(Binders(exp)) /\ Hygienic(src, exp, <<>>))

\* C3 witness: a binder of x shadowed by another binder of x whose definition uses the outer
C3_Witness ==
    /\ phase = "renamed"
    /\ src = Let("x", Num(1), Let("x", Var("x"), BinaryExpression("Add", Var("x"), Var("x"))))
    /\ exp = Let("x_0", Num(1),
                 Let("x_1", Var("x_0"), BinaryExpression("Add", Var("x_1"), Var("x_1"))))

\* The number of instructions GenVisitor emits for e
CodeLen(e) == Len(Generate(e).g.prog.insts)

\* The code has been generated from an expression whose root is of kind k
Generated(k) == src # None /\ phase \in {"machine", "done"} /\ exp.k = k

\* The instruction at index i (from 0)
At(i) == insts[i + 1]

\* The index of the instruction the next step executes
Fetched(span) == inst # None /\ (pc - 1) \in span

\* Root And(a, b):  code(a); beq a x0 L; code(b); add dest b x0; jal x0 End; L: addi dest x0 0
\* Root Or(a, b):   code(a); beq a x0 L; addi dest x0 1; jal x0 End; L: code(b); add dest b x0
\* The indices of the instructions generated for b:
RightSpan ==
    LET first == CodeLen(exp.left) + (IF exp.k = "And" THEN 1 ELSE 3)
    IN first .. (first + CodeLen(exp.right) - 1)

\* The register of a, the one the beq after code(a) tests
LeftReg == At(CodeLen(exp.left)).rs1

\* C4: in the code of And(a, b), when the register of a holds 0 no instruction generated
\* for b is executed and the result register ends holding 0; in the code of Or(a, b),
\* when the register of a holds a non-zero value no instruction generated for b is
\* executed and the result register ends holding 1.
C4_ShortCircuit ==
    /\ Generated("And") =>
         /\ At(CodeLen(exp.left)) =
               Beq(LeftReg, "x0", Some(CodeLen(exp.left) + CodeLen(exp.right) + 3))
         /\ Len(insts) = CodeLen(exp.left) + CodeLen(exp.right) + 4
         /\ Fetched(RightSpan) => (LeftReg \in DOMAIN env /\ env[LeftReg] # 0)
         /\ (status = "halted" /\ env[LeftReg] = 0) => env[var_answer[1]] = 0
    /\ Generated("Or") =>
         /\ At(CodeLen(exp.left)) = Beq(LeftReg, "x0", Some(CodeLen(exp.left) + 3))
         /\ Len(insts) = CodeLen(exp.left) + CodeLen(exp.right) + 4
         /\ Fetched(RightSpan) => (LeftReg \in DOMAIN env /\ env[LeftReg] = 0)
         /\ (status = "halted" /\ env[LeftReg] # 0) => env[var_answer[1]] = 1

\* C4 witness: false and (1 / 0 = 1) has run to its answer 0, the division skipped
C4_Witness ==
    /\ phase = "done"
    /\ status = "halted"
    /\ src = BinaryExpression("And", Bln(FALSE),
                 BinaryExpression("Eql", BinaryExpression("Div", Num(1), Num(0)), Num(1)))
    /\ answer = Some(IntV(0))

\* C5: when GenVisitor has finished, every beq and jal of the program has a target that is
\* set, to an integer t with 0 <= t <= number of instructions.
C5_BranchTargetsSet ==
    (src # None /\ phase \in {"machine", "done"}) =>
        \A n \in 1 .. Len(insts) :
            insts[n].op \in {"beq", "jal"} =>
                (insts[n].lab # None /\ insts[n].lab[1] \in 0 .. Len(insts))

\* C5 witness: generated code about to run that holds a beq into the program and a jal
\* to the index just past its last instruction
C5_Witness ==
    /\ phase = "machine"
    /\ steps = 0
    /\ \E m, n \in 1 .. Len(insts) :
          /\ insts[m].op = "beq" /\ insts[m].lab # None /\ insts[m].lab[1] < Len(insts)
          /\ insts[n].op = "jal" /\ insts[n].lab = Some(Len(insts))

\* Root IfThenElse(c, e0, e1):
\*   code(c); beq c x0 L; code(e0); add dest e0 x0; jal x0 End; L: code(e1); add dest e1 x0
ThenSpan ==
    (CodeLen(exp.cond) + 1) .. (CodeLen(exp.cond) + CodeLen(exp.e0) + 1)

ElseSpan ==
    (CodeLen(exp.cond) + CodeLen(exp.e0) + 3)
        .. (CodeLen(exp.cond) + CodeLen(exp.e0) + CodeLen(exp.e1) + 3)

\* The register of c, the one the beq after code(c) tests
CondReg == At(CodeLen(exp.cond)).rs1

\* The instructions that copy the value of e0, of e1, into the destination register
ThenCopy == At(CodeLen(exp.cond) + CodeLen(exp.e0) + 1)

ElseCopy == At(CodeLen(exp.cond) + CodeLen(exp.e0) + CodeLen(exp.e1) + 3)

\* C6: a run of the code of IfThenElse(c, e0, e1) executes the instructions of e0 only
\* when the register of c is non-zero and those of e1 only when it is 0, and either path
\* leaves the value of its branch in one destination register, the one the generator returns.
C6_OneBranch ==
    Generated("IfThenElse") =>
        /\ At(CodeLen(exp.cond)) =
              Beq(CondReg, "x0", Some(CodeLen(exp.cond) + CodeLen(exp.e0) + 3))
        /\ Len(insts) = CodeLen(exp.cond) + CodeLen(exp.e0) + CodeLen(exp.e1) + 4
        /\ ThenCopy.op = "add" /\ ThenCopy.rs2 = "x0" /\ ThenCopy.rd = var_answer[1]
        /\ ElseCopy.op = "add" /\ ElseCopy.rs2 = "x0" /\ ElseCopy.rd = var_answer[1]
        /\ Fetched(ThenSpan) => (CondReg \in DOMAIN env /\ env[CondReg] # 0)
        /\ Fetched(ElseSpan) => (CondReg \in DOMAIN env /\ env[CondReg] = 0)
        /\ status = "halted" =>
              env[var_answer[1]] = IF env[CondReg] # 0 THEN env[ThenCopy.rs1]
                                   ELSE env[ElseCopy.rs1]

\* C6 witness: if false then 1 / 0 else 2 has run to its answer 2, the division skipped
C6_Witness ==
    /\ phase = "done"
    /\ status = "halted"
    /\ src = IfThenElse(Bln(FALSE), BinaryExpression("Div", Num(1), Num(0)), Num(2))
    /\ answer = Some(IntV(2))

(***************************************************************************)
(* The front-end specification: driver.py from the program text on, for    *)
(* every text of Texts: Lexer.tokens(), Parser(...), parse(), and then the *)
(* pipeline on the expression parsed.                                      *)
(***************************************************************************)
\* The concatenation of a sequence of sequences
RECURSIVE Flatten(_)
Flatten(ss) == IF ss = <<>> THEN <<>> ELSE Head(ss) \o Flatten(Tail(ss))

\* The words of ws with one space between them
RECURSIVE Spaced(_)
Spaced(ws) ==
    IF Len(ws) <= 1 THEN Flatten(ws) ELSE Head(ws) \o <<" ">> \o Spaced(Tail(ws))

\* Pieces of text that make lexemes when they are put side by side
Pieces ==
    {<<"l", "e", "t">>, <<"x">>, <<"1">>, <<"_">>, <<"<">>, <<"-">>, <<"=">>, <<">">>,
     <<" ">>, <<"\n">>, <<"(", "*">>, <<"*", ")">>, <<"(">>, <<")">>, <<"*">>, <<":">>}

LexerTexts == {Flatten(ps) : ps \in SeqsUpTo(Pieces, MaxPieces)}

\* Lexemes of expressions, which the texts of ParserTexts keep apart with spaces
Lexemes ==
    {<<"1">>, <<"x">>, <<"f">>, <<"+">>, <<"-">>, <<"*">>, <<"(">>, <<")">>, <<"~">>,
     <<"a", "n", "d">>, <<"=">>, <<"<">>}

ParserTexts == {Spaced(ws) : ws \in SeqsUpTo(Lexemes, MaxTokens)}

\* Whole programs
Programs ==
    {
     <<"f", " ", "x", " ", "+", " ", "y">>,
     <<"f", " ", "x", " ", "*", " ", "y">>,
     <<"a", " ", "-", " ", "b", " ", "-", " ", "c">>,
     <<"l", "e", "t", " ", "v", " ", ":", " ", "i", "n", "t", " ", "<", "-", " ", "2", "1", " ", "i", "n", " ", "v", " ", "+", " ", "v", " ", "e", "n", "d">>,
     <<"(", "f", "n", " ", "v", " ", ":", " ", "i", "n", "t", " ", "=", ">", " ", "v", " ", "+", " ", "1", ")", " ", "2">>,
     <<"l", "e", "t", " ", "v", " ", "<", "-", " ", "2", "1", " ", "i", "n", " ", "v", " ", "+", " ", "v", " ", "e", "n", "d">>,
     <<"(", "f", "n", " ", "v", " ", "=", ">", " ", "v", " ", "+", " ", "1", ")", " ", "2">>,
     <<"a", " ", "o", "r", " ", "b", " ", "a", "n", "d", " ", "c">>,
     <<"a", " ", "a", "n", "d", " ", "b", " ", "o", "r", " ", "c">>,
     <<"a", " ", "a", "n", "d", " ", "b", " ", "=", " ", "c">>,
     <<"a", " ", "=", " ", "b", " ", "<", " ", "c">>,
     <<"a", " ", "<", " ", "b", " ", "+", " ", "c">>,
     <<"a", " ", "+", " ", "b", " ", "*", " ", "c">>,
     <<"a", " ", "*", " ", "b", " ", "+", " ", "c">>,
     <<"a", " ", "/", " ", "b", " ", "*", " ", "c">>,
     <<"~", " ", "a", " ", "*", " ", "b">>,
     <<"n", "o", "t", " ", "a", " ", "a", "n", "d", " ", "b">>,
     <<"n", "o", "t", " ", "n", "o", "t", " ", "a">>,
     <<"f", " ", "x", " ", "y">>,
     <<"f", " ", "~", " ", "x">>,
     <<"a", " ", "<", " ", "b", " ", "<", "=", " ", "c">>,
     <<"a", " ", "=", " ", "b", " ", "=", "=", " ", "c">>,
     <<"a", " ", "o", "r", " ", "b", " ", "o", "r", " ", "c">>,
     <<"a", " ", "-", " ", "b", " ", "+", " ", "c">>,
     <<"1", " ", "+", " ", "2", " ", "*", " ", "3", " ", "-", " ", "4">>,
     <<"(", "1", " ", "+", " ", "2", ")", " ", "*", " ", "3">>,
     <<"2", " ", "*", " ", "(", "3", " ", "+", " ", "4", ")">>,
     <<"i", "f", " ", "1", " ", "<", " ", "2", " ", "t", "h", "e", "n", " ", "3", " ", "e", "l", "s", "e", " ", "4", " ", "e", "n", "d">>,
     <<"i", "f", " ", "t", "r", "u", "e", " ", "t", "h", "e", "n", " ", "1", " ", "e", "l", "s", "e", " ", "2">>,
     <<"l", "e", "t", " ", "x", " ", "<", "-", " ", "1", " ", "i", "n", " ", "x">>,
     <<"l", "e", "t", " ", "x", " ", "1", " ", "i", "n", " ", "x", " ", "e", "n", "d">>,
     <<"f", "n", " ", "x", " ", "=", ">", " ", "x", " ", "+", " ", "1">>,
     <<"1", " ", "+", " ", "l", "e", "t", " ", "x", " ", "<", "-", " ", "2", " ", "i", "n", " ", "x", " ", "*", " ", "x", " ", "e", "n", "d">>,
     <<"(", "f", "n", " ", "x", " ", "=", ">", " ", "x", " ", "*", " ", "x", ")", " ", "3", " ", "+", " ", "1">>,
     <<"l", "e", "t", " ", "f", " ", "<", "-", " ", "f", "n", " ", "x", " ", "=", ">", " ", "x", " ", "+", " ", "1", " ", "i", "n", " ", "f", " ", "2", " ", "e", "n", "d">>,
     <<"1", " ", "+", " ", "2", " ", ")">>,
     <<"(", "1", " ", "+", " ", "2">>,
     <<"1", " ", "-", "-", " ", "o", "n", "e", "\n", "+", " ", "2">>,
     <<"1", " ", "(", "*", " ", "o", "n", "e", " ", "*", ")", " ", "+", " ", "2">>,
     <<"1", "0", " ", "/", " ", "3">>,
     <<"t", "r", "u", "e", " ", "a", "n", "d", " ", "n", "o", "t", " ", "f", "a", "l", "s", "e">>,
     <<"l", "e", "t", "t", "e", "r">>,
     <<"i", "f", "f", "y">>,
     <<"n", "o", "t", "e">>,
     <<"i", "n", "t", "1">>,
     <<"l", "e", "t">>,
     <<"i", "f">>,
     <<"n", "o", "t">>,
     <<"i", "n", "t">>,
     <<"x", "_", "1">>,
     <<"l", "e", "t", "t", "u", "c", "e", " ", "<", "-", " ", "1">>,
     <<"v", ":", " ", "i", "n", "t", " ", "-", ">", " ", "b", "o", "o", "l">>
    }

\* Two operators in a row, each operand with or without a unary operator in front:
\* a op b op c, where the empty operator is function application
InfixOperators ==
    {<<"o", "r">>, <<"a", "n", "d">>, <<"=">>, <<"<", "=">>, <<"<">>, <<"+">>, <<"-">>,
     <<"*">>, <<"/">>, <<>>}

PrefixOperators == {<<>>, <<"~">>, <<"n", "o", "t">>}

OperatorTexts ==
    {Spaced(<<<<"a">>, op1, pre1, <<"b">>, op2, pre2, <<"c">>>>) :
        op1 \in InfixOperators, pre1 \in PrefixOperators,
        op2 \in InfixOperators, pre2 \in PrefixOperators}

Texts == LexerTexts \cup ParserTexts \cup OperatorTexts \cup Programs

InitFront ==
    /\ source \in Texts
    /\ position = 0
    /\ tokens = <<>>
    /\ cur_token_idx = 0
    /\ phase = "lexing"
    /\ status = "idle"
    /\ src = None
    /\ exp = None
    /\ insts = <<>>
    /\ env = <<>>
    /\ clos = <<>>
    /\ mem = [size |-> 0, cells |-> <<>>]
    /\ pc = 0
    /\ error = ""
    /\ inst = None
    /\ steps = 0
    /\ var_answer = None
    /\ answer = None
    /\ constraints = None
    /\ type_names = None

\* A filter that lets comments through
Yielded_comments(kind) == kind \notin {"WSP", "NLN"}

\* The test of Lexer.tokens() on the kind of a token: is it yielded?
Yielded(kind) == kind \notin {"WSP", "COM", "NLN"}

\* One turn of the loop of Lexer.tokens(), run by list(tokens) in Parser.__init__:
\* token = self.getToken(), its test against EOF, and the yield
GetToken ==
    /\ phase = "lexing"
    /\ status = "idle"
    /\ LET got == getToken(source, position) IN
       IF got.error # ""
       THEN /\ status' = "error"
            /\ error' = "ValueError: " \o got.error
            /\ UNCHANGED <<position, tokens, phase>>
       ELSE IF got.token.kind = "EOF"
       THEN /\ phase' = "lexed"
            /\ UNCHANGED <<position, tokens, status, error>>
       ELSE /\ position' = got.position
            /\ tokens' = IF Yielded(got.token.kind) THEN Append(tokens, got.token) ELSE tokens
            /\ UNCHANGED <<phase, status, error>>
    /\ UNCHANGED <<source, cur_token_idx, steps, insts, env, clos, mem, pc, inst,
                   src, exp, var_answer, answer, typeVars>>

\* The end of Parser.__init__: self.tokens.append(Token("", EOF)); cur_token_idx = 0
ParserInit ==
    /\ phase = "lexed"
    /\ tokens' = Parser_tokens(tokens)
    /\ cur_token_idx' = 0
    /\ phase' = "tokens"
    /\ UNCHANGED <<source, position, steps, insts, env, clos, mem, pc, inst, status, error,
                   src, exp, var_answer, answer, typeVars>>

\* parser.parse()
Parse ==
    /\ phase = "tokens"
    /\ status = "idle"
    /\ LET r == parse(tokens) IN
       /\ cur_token_idx' = r.idx
       /\ IF r.ok
          THEN /\ src' = r.exp
               /\ exp' = r.exp
               /\ phase' = "parsed"
               /\ UNCHANGED <<status, error>>
          ELSE /\ status' = "error"
               /\ error' = r.msg
               /\ UNCHANGED <<src, exp, phase>>
    /\ UNCHANGED <<source, position, tokens, steps, insts, env, clos, mem, pc, inst,
                   var_answer, answer, typeVars>>

NextFront ==
    GetToken \/ ParserInit \/ Parse \/ RenameVariables \/ GenerateCode \/ Fetch \/ Execute
    \/ PrintAnswer

SpecFront == InitFront /\ [][NextFront]_vars

(***************************************************************************)
(* Claims about the parser.                                                *)
(***************************************************************************)
\* What a token says: its kind, and for a number or a name also its value
Lexeme(token) ==
    CASE token.kind = "NUM" -> "NUM:" \o ToString(PyInt(token.text))
      [] token.kind = "VAR" -> "VAR:" \o Join(token.text)
      [] OTHER -> token.kind

BinaryToken(k) ==
    CASE k = "Or" -> "ORX" [] k = "And" -> "AND" [] k = "Eql" -> "EQL" [] k = "Leq" -> "LEQ"
      [] k = "Lth" -> "LTH" [] k = "Add" -> "ADD" [] k = "Sub" -> "SUB" [] k = "Mul" -> "MUL"
      [] k = "Div" -> "DIV"

\* The lexemes an expression is written with, in order, parentheses left out
RECURSIVE Unparse(_)
Unparse(e) ==
    CASE e.k = "Num" -> <<"NUM:" \o ToString(e.num)>>
      [] e.k = "Bln" -> <<IF e.bln THEN "TRU" ELSE "FLS">>
      [] e.k = "Var" -> <<"VAR:" \o e.identifier>>
      [] e.k \in BinaryKinds -> Unparse(e.left) \o <<BinaryToken(e.k)>> \o Unparse(e.right)
      [] e.k \in UnaryKinds -> <<IF e.k = "Neg" THEN "NEG" ELSE "NOT">> \o Unparse(e.exp)
      [] e.k = "Let" ->
            <<"LET", "VAR:" \o e.identifier, "ASN">> \o Unparse(e.exp_def) \o <<"INX">>
            \o Unparse(e.exp_body) \o <<"END">>
      [] e.k = "IfThenElse" ->
            <<"IFX">> \o Unparse(e.cond) \o <<"THN">> \o Unparse(e.e0) \o <<"ELS">>
            \o Unparse(e.e1) \o <<"END">>
      [] e.k = "Fn" -> <<"FNX", "VAR:" \o e.formal, "ARW">> \o Unparse(e.body)
      [] e.k = "App" -> Unparse(e.function) \o Unparse(e.actual)

NotBracket(lexeme) == lexeme \notin {"LPR", "RPR", "EOF"}

\* The lexemes of the token buffer, parentheses and EOF left out
BufferLexemes == SelectSeq([i \in 1 .. Len(tokens) |-> Lexeme(tokens[i])], NotBracket)

TokenKinds ==
    {"EOF", "NUM", "VAR", "TRU", "FLS", "LET", "INX", "END", "IFX", "THN", "ELS", "FNX",
     "ORX", "AND", "NOT", "NEG", "ADD", "SUB", "MUL", "DIV", "LEQ", "LTH", "EQL", "ASN",
     "ARW", "TPF", "COL", "INT", "LGC", "LPR", "RPR"}

ParseErrors ==
    {"Parse error: Expected " \o kind : kind \in TokenKinds}
        \cup {"Parse error: Unexpected token"}

ParseAborted == phase = "tokens" /\ status = "error"

\* C12: parse returns an expression only with every token up to EOF consumed, none
\* skipped and none replaced (the expression is written with exactly the tokens of the
\* buffer, in order); otherwise it aborts with a parse error and no expression, standing
\* at the first token that does not fit: the tokens before it parse the same way up to there.
C12_ParseAllOrAbort ==
    /\ src # None =>
          /\ tokens # <<>>
          /\ tokens[Len(tokens)].kind = "EOF"
          /\ cur_token_idx = Len(tokens) - 1
          /\ Unparse(src) = BufferLexemes
    /\ ParseAborted =>
          /\ src = None
          /\ error \in ParseErrors
          /\ cur_token_idx \in 0 .. Len(tokens) - 1
          /\ parse(Parser_tokens(SubSeq(tokens, 1, cur_token_idx))).idx = cur_token_idx

\* C12 witness: (1 + 2) * 3 has been parsed, the parser standing on the EOF token
C12_Witness ==
    /\ phase = "parsed"
    /\ source = <<"(", "1", " ", "+", " ", "2", ")", " ", "*", " ", "3">>
    /\ cur_token_idx = 7
    /\ src = BinaryExpression("Mul", BinaryExpression("Add", Num(1), Num(2)), Num(3))

\* C12, the other case: 1 + 2 ) has aborted at the closing parenthesis
C12_WitnessAbort ==
    /\ ParseAborted
    /\ source = <<"1", " ", "+", " ", "2", " ", ")">>
    /\ cur_token_idx = 3
    /\ error = "Parse error: Expected EOF"

\* How tight the operator at the root of an expression binds, loosest first
Level(e) ==
    CASE e.k = "Or" -> 1
      [] e.k = "And" -> 2
      [] e.k = "Eql" -> 3
      [] e.k \in {"Leq", "Lth"} -> 4
      [] e.k \in {"Add", "Sub"} -> 5
      [] e.k = "App" -> 6
      [] e.k \in {"Mul", "Div"} -> 7
      [] e.k \in UnaryKinds -> 8
      [] OTHER -> 9

\* Without parentheses, an operand on the left binds at least as tight as its operator
\* (operators of one level group to the left), one on the right binds tighter
RECURSIVE Levelled(_)
Levelled(e) ==
    CASE e.k \in BinaryKinds ->
            /\ Level(e.left) >= Level(e) /\ Level(e.right) > Level(e)
            /\ Levelled(e.left) /\ Levelled(e.right)
      [] e.k = "App" ->
            /\ Level(e.function) >= Level(e) /\ Level(e.actual) > Level(e)
            /\ Levelled(e.function) /\ Levelled(e.actual)
      [] e.k \in UnaryKinds -> Level(e.exp) >= Level(e) /\ Levelled(e.exp)
      [] OTHER -> TRUE

\* The token buffer holds operators and atoms only: no parentheses, let, fn or if
OperatorsOnly ==
    \A i \in 1 .. Len(tokens) :
        tokens[i].kind \in {"NUM", "VAR", "TRU", "FLS", "ORX", "AND", "EQL", "LEQ", "LTH",
                            "ADD", "SUB", "MUL", "DIV", "NEG", "NOT", "EOF"}

\* The parser has returned the expression e for the text
ParsedAs(text, e) ==
    source = text => /\ ~ParseAborted
                     /\ phase \notin {"lexing", "lexed", "tokens"} => src = e

\* C13: the operators bind, loosest first, in the order or, and, =, (<= <), (+ -),
\* application, (* /), unary (~ not), and those of one level group to the left: an
\* expression parsed from operators and atoms alone is levelled in that order and keeps
\* the order of its tokens; f x + y is Add(App(f, x), y), f x * y is App(f, Mul(x, y)),
\* and a - b - c is Sub(Sub(a, b), c).
C13_Precedence ==
    /\ src # None /\ OperatorsOnly => Levelled(src) /\ Unparse(src) = BufferLexemes
    /\ ParsedAs(<<"f", " ", "x", " ", "+", " ", "y">>,
                BinaryExpression("Add", App(Var("f"), Var("x")), Var("y")))
    /\ ParsedAs(<<"f", " ", "x", " ", "*", " ", "y">>,
                App(Var("f"), BinaryExpression("Mul", Var("x"), Var("y"))))
    /\ ParsedAs(<<"a", " ", "-", " ", "b", " ", "-", " ", "c">>,
                BinaryExpression("Sub", BinaryExpression("Sub", Var("a"), Var("b")),
                                 Var("c")))

\* C13 witness: a - b - c has been parsed, grouped to the left
C13_Witness ==
    /\ phase = "parsed"
    /\ source = <<"a", " ", "-", " ", "b", " ", "-", " ", "c">>
    /\ src = BinaryExpression("Sub", BinaryExpression("Sub", Var("a"), Var("b")), Var("c"))

AnnotatedLet ==
    <<"l", "e", "t", " ", "v", " ", ":", " ", "i", "n", "t", " ", "<", "-", " ", "2", "1", " ",
      "i", "n", " ", "v", " ", "+", " ", "v", " ", "e", "n", "d">>

AnnotatedFn ==
    <<"(", "f", "n", " ", "v", " ", ":", " ", "i", "n", "t", " ", "=", ">", " ", "v", " ", "+",
      " ", "1", ")", " ", "2">>

\* C14: type annotations are accepted: let v : int <- 21 in v + v end parses to
\* Let(v, Num 21, Add(v, v)) and the pipeline answers 42; (fn v : int => v + 1) 2 parses
\* to the application of Fn(v, Add(v, 1)) to 2 and the pipeline answers 3.
C14_TypeAnnotations ==
    /\ ParsedAs(AnnotatedLet,
                Let("v", Num(21), BinaryExpression("Add", Var("v"), Var("v"))))
    /\ source = AnnotatedLet /\ phase = "done" => answer = Some(IntV(42))
    /\ ParsedAs(AnnotatedFn,
                App(Fn("v", BinaryExpression("Add", Var("v"), Num(1))), Num(2)))
    /\ source = AnnotatedFn /\ phase = "done" => answer = Some(IntV(3))

(***************************************************************************)
(* Claims about the lexer.                                                 *)
(***************************************************************************)
\* The lexer is about to scan a token that starts at the character c
TokenStart(c) ==
    /\ phase = "lexing"
    /\ status = "idle"
    /\ position < Len(source)
    /\ source[position + 1] = c

WordChar(c) == c \in Letters \cup Digits \cup {"_"}

\* Where the longest run of letters, digits and underscores from position on ends
RunEnd ==
    CHOOSE j \in position .. Len(source) :
        /\ \A i \in position + 1 .. j : WordChar(source[i])
        /\ j = Len(source) \/ ~WordChar(source[j + 1])

KeywordSet ==
    {"let", "in", "end", "true", "false", "if", "then", "else", "or", "and", "not", "fn",
     "int", "bool"}

KeywordKinds ==
    {"LET", "INX", "END", "TRU", "FLS", "IFX", "THN", "ELS", "ORX", "AND", "NOT", "FNX",
     "INT", "LGC"}

\* The step has appended exactly one token to the buffer
Emitted == Len(tokens') = Len(tokens) + 1 /\ SubSeq(tokens', 1, Len(tokens)) = tokens

LastToken(toks) == toks[Len(toks)]

\* C15: at a letter the lexer scans the longest run of letters, digits and underscores
\* and only then classifies it: the token is the whole run, a keyword token if and only
\* if the whole run is a keyword, and a VAR token otherwise.
C15_LongestIdentifier ==
    [][(\E c \in Letters : TokenStart(c)) =>
          /\ Emitted
          /\ position' = RunEnd
          /\ LastToken(tokens').text = SubSeq(source, position + 1, RunEnd)
          /\ LastToken(tokens').kind \in KeywordKinds \cup {"VAR"}
          /\ LastToken(tokens').kind \in KeywordKinds
                <=> Join(SubSeq(source, position + 1, RunEnd)) \in KeywordSet
          /\ LastToken(tokens').kind \in KeywordKinds
                => LastToken(tokens').kind
                      = keywords[Join(SubSeq(source, position + 1, RunEnd))]]_vars

\* C15 witness: letter has been scanned as one VAR token, not as let followed by ter
C15_Witness ==
    /\ source = <<"l", "e", "t", "t", "e", "r">>
    /\ position = 6
    /\ tokens = <<Token(source, "VAR")>>

\* The kind of the operator that the two characters spell, None when they spell none
PairKind(c1, c2) ==
    CASE c1 = "<" /\ c2 = "-" -> Some("ASN")
      [] c1 = "<" /\ c2 = "=" -> Some("LEQ")
      [] c1 = "=" /\ c2 = ">" -> Some("ARW")
      [] c1 = "-" /\ c2 = ">" -> Some("TPF")
      [] c1 = "=" /\ c2 = "=" -> Some("EQL")
      [] OTHER -> None

\* The two characters open a comment
CommentOpener(c1, c2) == (c1 = "-" /\ c2 = "-") \/ (c1 = "(" /\ c2 = "*")

NextChar == IF position + 1 < Len(source) THEN source[position + 2] ELSE EndChar

SingleKind(c) == CASE c = "<" -> "LTH" [] c = "=" -> "EQL" [] c = "-" -> "SUB"

\* C16: where the next two characters spell <-, <=, =>, -> or ==, the lexer emits the
\* two-character token (ASN, LEQ, ARW, TPF, EQL) and consumes both; it emits the
\* one-character token LTH, EQL or SUB exactly when neither a two-character operator
\* nor a comment opener matches.
C16_LongestOperator ==
    [][\A c \in {"<", "=", "-"} : TokenStart(c) =>
          IF PairKind(c, NextChar) # None
          THEN /\ Emitted
               /\ LastToken(tokens') = Token(<<c, NextChar>>, PairKind(c, NextChar)[1])
               /\ position' = position + 2
          ELSE IF CommentOpener(c, NextChar)
          THEN tokens' = tokens /\ position' >= position + 2
          ELSE /\ Emitted
               /\ LastToken(tokens') = Token(<<c>>, SingleKind(c))
               /\ position' = position + 1]_vars

\* C16 witness: <-x has given the ASN token and the lexer stands on x
C16_Witness ==
    /\ source = <<"<", "-", "x">>
    /\ position = 2
    /\ tokens = <<Token(<<"<", "-">>, "ASN")>>

\* The positions of the buffer that hold an EOF token
EOFPositions == {i \in 1 .. Len(tokens) : tokens[i].kind = "EOF"}

\* C17: the token stream holds no whitespace, newline or comment token, and no EOF
\* token of its own; once the parser is constructed its buffer holds exactly one EOF
\* token, at the last position.
C17_TokenBuffer ==
    /\ \A i \in 1 .. Len(tokens) : tokens[i].kind \notin {"WSP", "NLN", "COM"}
    /\ phase \in {"lexing", "lexed"} => EOFPositions = {}
    /\ phase \notin {"lexing", "lexed"} => EOFPositions = {Len(tokens)}

\* C17 witness: the parser's buffer for a text with blanks, a newline and a comment
C17_Witness ==
    /\ phase = "tokens"
    /\ source = <<"1", " ", "-", "-", " ", "o", "n", "e", "\n", "+", " ", "2">>
    /\ tokens = <<Token(<<"1">>, "NUM"), Token(<<"+">>, "ADD"), Token(<<"2">>, "NUM"),
                  Token(<<>>, "EOF")>>

(***************************************************************************)
(* The type-inference specification: for every expression of TypeSources,  *)
(* the constraints of Vpl9's CtrGenVisitor and Vpl7's infer_types.         *)
(***************************************************************************)
TypeExamples ==
    {Fn("v", Var("v")),
     App(Fn("v", Var("v")), Num(1)),
     App(Var("f"), Num(1)),
     Let("v", Num(42), Var("v")),
     Let("v", Num(1), Let("y", Var("v"), Var("y"))),
     Let("v", Num(40), Let("w", Num(2), BinaryExpression("Add", Var("v"), Var("w")))),
     BinaryExpression("Eql", Num(1), Bln(TRUE))}

TypeSources == Sources \cup TypeExamples

\* The language of Vpl7 has neither fn nor application
RECURSIVE FirstOrder(_)
FirstOrder(e) ==
    CASE e.k \in {"Var", "Bln", "Num"} -> TRUE
      [] e.k \in BinaryKinds -> FirstOrder(e.left) /\ FirstOrder(e.right)
      [] e.k \in UnaryKinds -> FirstOrder(e.exp)
      [] e.k = "Let" -> FirstOrder(e.exp_def) /\ FirstOrder(e.exp_body)
      [] e.k = "IfThenElse" -> FirstOrder(e.cond) /\ FirstOrder(e.e0) /\ FirstOrder(e.e1)
      [] OTHER -> FALSE

InitTypes ==
    /\ src \in TypeSources
    /\ exp = src
    /\ phase = "typing"
    /\ status = "idle"
    /\ constraints = None
    /\ type_names = None
    /\ source = <<>>
    /\ position = 0
    /\ tokens = <<>>
    /\ cur_token_idx = 0
    /\ insts = <<>>
    /\ env = <<>>
    /\ clos = <<>>
    /\ mem = [size |-> 0, cells |-> <<>>]
    /\ pc = 0
    /\ error = ""
    /\ inst = None
    /\ steps = 0
    /\ var_answer = None
    /\ answer = None

\* ev = CtrGenVisitor(); e.accept(ev, ev.fresh_type_var()), with the visitor of Vpl9
GenerateConstraints ==
    /\ phase = "typing"
    /\ status = "idle"
    /\ constraints' = Some(Ctr_accept(exp, fresh_type_var(0), 1).ctrs)
    /\ phase' = "constraints"
    /\ UNCHANGED <<steps, insts, env, clos, mem, pc, inst, status, error, src, exp,
                   var_answer, answer, lexerVars, type_names>>

\* type_names = infer_types(e), with Vpl7
InferTypes ==
    /\ phase = "typing"
    /\ status = "idle"
    /\ FirstOrder(exp)
    /\ LET r == infer_types(exp) IN
       IF r.raised
       THEN /\ status' = "error"
            /\ error' = r.error
            /\ UNCHANGED <<type_names, phase>>
       ELSE /\ type_names' = Some(r.value)
            /\ phase' = "inferred"
            /\ UNCHANGED <<status, error>>
    /\ UNCHANGED <<steps, insts, env, clos, mem, pc, inst, src, exp, var_answer, answer,
                   lexerVars, constraints>>

NextTypes == GenerateConstraints \/ InferTypes

SpecTypes == InitTypes /\ [][NextTypes]_vars

(***************************************************************************)
(* Claims about type inference.                                            *)
(***************************************************************************)
\* The type of the functions from a to b
Arrow(a, b) == "(" \o a \o " -> " \o b \o ")"

\* The type variables drawn while the constraints of exp were generated
FreshVars == {fresh_type_var(n) : n \in 1 .. Ctr_accept(exp, fresh_type_var(0), 1).counter - 1}

Counters == 1 .. Ctr_accept(exp, fresh_type_var(0), 1).counter

\* The constraint set holds a pair that equates the two type names
Equates(a, b) == <<a, b>> \in constraints[1] \/ <<b, a>> \in constraints[1]

\* The constraints of the expression exp, of type TV_1, have been generated
Constrained(k) == phase = "constraints" /\ exp.k = k

\* C18: for fn x => body with type t, visit_fn draws fresh a and b, generates the
\* constraints of the body against b, and returns a set that holds (x, a) and a pair
\* equating t with the arrow type from a to b.
C18_FnConstraints ==
    Constrained("Fn") =>
        \E a \in FreshVars, b \in FreshVars :
            /\ a # b
            /\ <<exp.formal, a>> \in constraints[1]
            /\ Equates(fresh_type_var(0), Arrow(a, b))
            /\ \E n \in Counters : Ctr_accept(exp.body, b, n).ctrs \subseteq constraints[1]

\* C19: for f a with type t, visit_app draws one fresh v and generates the constraints
\* of f against the arrow type from v to t and those of a against v.
C19_AppConstraints ==
    Constrained("App") =>
        \E v \in FreshVars :
            /\ \E n \in Counters :
                  Ctr_accept(exp.function, Arrow(v, fresh_type_var(0)), n).ctrs
                      \subseteq constraints[1]
            /\ \E n \in Counters :
                  Ctr_accept(exp.actual, v, n).ctrs \subseteq constraints[1]

\* infer_types has been called on the expression and has ended
Inferred == phase = "inferred" \/ (phase = "typing" /\ status = "error")

\* C20: infer_types gives every let-bound identifier exactly one concrete type, int or
\* bool: it returns a mapping defined on all of them, v |-> int for let v <- 42 in v end.
C20_InferTypes ==
    /\ Inferred /\ exp = Let("v", Num(42), Var("v")) =>
          /\ status # "error"
          /\ type_names = Some("v" :> IntType)
    /\ phase = "inferred" =>
          \A i \in 1 .. Len(Binders(exp)) :
              /\ Binders(exp)[i] \in DOMAIN type_names[1]
              /\ type_names[1][Binders(exp)[i]] \in {IntType, BoolType}

(***************************************************************************)
(* Further claims about the pipeline.                                      *)
(***************************************************************************)
\* C21: GenVisitor never mutates the expression it is given: code generation leaves
\* every node of it as it was (the substitution at application sites is done on deep
\* copies of function bodies).
C21_GeneratorReadOnly == [][phase = "renamed" => exp' = exp]_vars

\* C21 witness: code has been generated for (fn x => x) 1, whose body was renamed at
\* the application site, and the expression is still the one the renamer left
C21_Witness ==
    /\ phase = "machine"
    /\ steps = 0
    /\ src = App(Fn("x", Var("x")), Num(1))
    /\ exp = App(Fn("x_0", Var("x_0")), Num(1))
    /\ insts # <<>>

(***************************************************************************)
(* The division specification: a / b for all operands of Operands, by the  *)
(* div instruction of the machine, by the EvalVisitor of Vpl8 and by the    *)
(* EvalVisitor of Vpl9.                                                     *)
(***************************************************************************)
\* int(a / b) of Python for integers small enough for a / b to be exact to less than
\* one half: the quotient without its fractional part
PyIntTrueDiv(a, b) ==
    LET n == IF a < 0 THEN -a ELSE a
        d == IF b < 0 THEN -b ELSE b
    IN IF (a < 0) = (b < 0) THEN n \div d ELSE -(n \div d)

\* EvalVisitor.visit_div of Vpl8 on two Num operands, with the environment {}
Eval8_visit_div(e) ==
    LET left == e.left.num
        right == e.right.num
    IN IF right = 0 THEN Exit("ZeroDivisionError") ELSE IntV(PyIntTrueDiv(left, right))

Operands == -MaxOperand .. MaxOperand

InitDiv ==
    /\ \E a \in Operands, b \in Operands :
          /\ src = BinaryExpression("Div", Num(a), Num(b))
          /\ LET p == ProgramInit(0, ("b0" :> a) @@ ("b1" :> b),
                                  <<BinOp("div", "a", "b0", "b1")>>)
             IN /\ insts = p.insts
                /\ env = p.env
                /\ clos = p.clos
                /\ mem = p.mem
                /\ pc = p.pc
                /\ error = p.error
    /\ exp = src
    /\ phase \in {"machine", "eval8", "eval9"}
    /\ status = "running"
    /\ var_answer = Some("a")
    /\ inst = None
    /\ steps = 0
    /\ answer = None
    /\ source = <<>>
    /\ position = 0
    /\ tokens = <<>>
    /\ cur_token_idx = 0
    /\ constraints = None
    /\ type_names = None

\* The value v of an evaluator ends the run: an integer, or the exit of the process
Evaluated(v) ==
    /\ phase' = "done"
    /\ IF v.t = "exit"
       THEN status' = "error" /\ error' = v.msg /\ answer' = None
       ELSE status' = "halted" /\ answer' = Some(v) /\ UNCHANGED error
    /\ UNCHANGED <<steps, insts, env, clos, mem, pc, inst, src, exp, var_answer,
                   lexerVars, typeVars>>

\* e.accept(EvalVisitor(), {}) with the visitor of Vpl8
EvalDiv8 == phase = "eval8" /\ Evaluated(Eval8_visit_div(exp))

\* e.accept(EvalVisitor(), {}) with the visitor of Vpl9
EvalDiv9 == phase = "eval9" /\ Evaluated(Eval_accept(exp, <<>>))

NextDiv == Fetch \/ Execute \/ PrintAnswer \/ EvalDiv8 \/ EvalDiv9

SpecDiv == InitDiv /\ [][NextDiv]_vars

\* The largest integer that is at most a / b
Floor(a, b) ==
    CHOOSE q \in -MaxOperand .. MaxOperand :
        IF b > 0 THEN q * b <= a /\ a < (q + 1) * b ELSE q * b >= a /\ a > (q + 1) * b

\* C22: division rounds toward negative infinity in every evaluator: for all integers
\* a and b # 0, of equal or opposite signs, the div instruction of the machine and
\* visit_div of the EvalVisitors of Vpl8 and Vpl9 all give floor(a / b).
C22_FloorDivision ==
    phase = "done" /\ src.right.num # 0 =>
        /\ status = "halted"
        /\ answer = Some(IntV(Floor(src.left.num, src.right.num)))

\* The identifiers that occur in an expression, as uses or as binders
RECURSIVE Names(_)
Names(e) ==
    CASE e.k = "Var" -> {e.identifier}
      [] e.k \in {"Bln", "Num"} -> {}
      [] e.k \in BinaryKinds -> Names(e.left) \cup Names(e.right)
      [] e.k \in UnaryKinds -> Names(e.exp)
      [] e.k = "Let" -> {e.identifier} \cup Names(e.exp_def) \cup Names(e.exp_body)
      [] e.k = "IfThenElse" -> Names(e.cond) \cup Names(e.e0) \cup Names(e.e1)
      [] e.k = "Fn" -> {e.formal} \cup Names(e.body)
      [] e.k = "App" -> Names(e.function) \cup Names(e.actual)

\* r is o renamed with definitions of lets outside the scope of their let: a use carries
\* the new name of its innermost enclosing binder in scope, or its own name when it has
\* none, and the definition of a let is resolved in the scope around the let
RECURSIVE Resolved(_, _, _)
Resolved(o, r, scope) ==
    /\ r.k = o.k
    /\ CASE o.k = "Var" ->
              r.identifier = IF o.identifier \in DOMAIN scope THEN scope[o.identifier]
                             ELSE o.identifier
         [] o.k \in {"Bln", "Num"} -> r = o
         [] o.k \in BinaryKinds ->
              Resolved(o.left, r.left, scope) /\ Resolved(o.right, r.right, scope)
         [] o.k \in UnaryKinds -> Resolved(o.exp, r.exp, scope)
         [] o.k = "Let" ->
              /\ r.identifier \notin Names(r.exp_def)
              /\ Resolved(o.exp_def, r.exp_def, scope)
              /\ Resolved(o.exp_body, r.exp_body, Extend(scope, o.identifier, r.identifier))
         [] o.k = "IfThenElse" ->
              /\ Resolved(o.cond, r.cond, scope)
              /\ Resolved(o.e0, r.e0, scope)
              /\ Resolved(o.e1, r.e1, scope)
         [] o.k = "Fn" -> Resolved(o.body, r.body, Extend(scope, o.formal, r.formal))
         [] o.k = "App" ->
              Resolved(o.function, r.function, scope) /\ Resolved(o.actual, r.actual, scope)

\* C23: the definition d of Let(x, d, b) is renamed under the name map in force outside
\* the let: a use of x in d gets the name of the enclosing binder of x, or keeps its name
\* if there is none, and never the fresh name of this let; only b is renamed under the
\* extended map, and what follows the let is renamed under the caller's unchanged map.
C23_LetDefinitionScope == phase = "renamed" => Resolved(src, exp, <<>>)

\* C23 witness: let x <- 1 in let x <- x in x end end, the inner definition's x renamed
\* to the outer binder
C23_Witness ==
    /\ phase = "renamed"
    /\ src = Let("x", Num(1), Let("x", Var("x"), Var("x")))
    /\ exp = Let("x_0", Num(1), Let("x_1", Var("x_0"), Var("x_1")))

\* C23, no enclosing binder: let x <- x in x end keeps the x of the definition
C23_WitnessFree ==
    /\ phase = "renamed"
    /\ src = Let("x", Var("x"), Var("x"))
    /\ exp = Let("x_0", Var("x"), Var("x_0"))

(***************************************************************************)
(* Equality of integers of either sign (specification SpecEql): the driver  *)
(* run on l = r for number literals l and r.                               *)
(***************************************************************************)
InitEql ==
    /\ \E a \in Operands, b \in Operands : src = BinaryExpression("Eql", Num(a), Num(b))
    /\ exp = src
    /\ phase = "parsed"
    /\ status = "idle"
    /\ LET p == ProgramInit(DriverMemorySize, <<>>, <<>>)
       IN /\ insts = p.insts
          /\ env = p.env
          /\ clos = p.clos
          /\ mem = p.mem
          /\ pc = p.pc
          /\ error = p.error
    /\ var_answer = None
    /\ inst = None
    /\ steps = 0
    /\ answer = None
    /\ source = <<>>
    /\ position = 0
    /\ tokens = <<>>
    /\ cur_token_idx = 0
    /\ constraints = None
    /\ type_names = None

SpecEql == InitEql /\ [][NextPipeline]_vars

\* The four instructions visit_eql emits after its operands, from index i on
EqlSequence(i) ==
    /\ Len(insts) = i + 3
    /\ insts[i].op = "sub"
    /\ insts[i + 1] = BinOpImm("slti", insts[i + 1].rd, insts[i].rd, 1)
    /\ insts[i + 2] = BinOpImm("slti", insts[i + 2].rd, insts[i].rd, 0)
    /\ insts[i + 3] = BinOp("xor", insts[i + 3].rd, insts[i + 1].rd, insts[i + 2].rd)
    /\ var_answer = Some(insts[i + 3].rd)

\* C24: for all integers a and b in the operand registers, positive, zero or negative,
\* the code of visit_eql (sub d; slti x, d, 1; slti y, d, 0; xor t, x, y) leaves 1 in
\* the result register if a = b and 0 otherwise.
C24_EqlAllIntegers ==
    /\ phase \in {"machine", "done"} => EqlSequence(3)
    /\ phase = "done" =>
          /\ status = "halted"
          /\ env[insts[1].rd] = src.left.num /\ env[insts[2].rd] = src.right.num
          /\ answer = Some(IntV(IF src.left.num = src.right.num THEN 1 ELSE 0))

\* C24 witness: a negative difference, -2 = 1 is false (both slti give 1)
C24_Witness ==
    /\ phase = "done"
    /\ src = BinaryExpression("Eql", Num(-2), Num(1))
    /\ env[insts[4].rd] = 1 /\ env[insts[5].rd] = 1
    /\ answer = Some(IntV(0))

\* C24, equal negative operands: -1 = -1 is true
C24_WitnessEqual ==
    /\ phase = "done"
    /\ src = BinaryExpression("Eql", Num(-1), Num(-1))
    /\ answer = Some(IntV(1))

(***************************************************************************)
(* The type checker of Vpl10 (TypeCheckVisitor) and its specification       *)
(* SpecCheck.  type(1) and type(True) are TInt and TBool; lets and          *)
(* functions carry the declared type of their variable.                    *)
(***************************************************************************)
ArrowType(tp_formal, tp_body) == [c |-> "arrow", hd |-> tp_formal, tl |-> tp_body]

\* a == b on types: ArrowType.__eq__ when one side is an arrow type, identity of the
\* class otherwise
RECURSIVE Type_eq(_, _)
Type_eq(a, b) ==
    IF a.c = "arrow" /\ b.c = "arrow"
    THEN Type_eq(a.hd, b.hd) /\ Type_eq(a.tl, b.tl)
    ELSE IF a.c = "arrow" \/ b.c = "arrow" THEN FALSE
    ELSE a.c = b.c

\* Vpl10/Expression.py: Let(identifier, tp_var, exp_def, exp_body)
Let10(identifier, tp_var, exp_def, exp_body) ==
    [k |-> "Let", identifier |-> identifier, tp_var |-> tp_var, exp_def |-> exp_def,
     exp_body |-> exp_body]

\* Vpl10/Expression.py: Fn(formal, tp_var, body)
Fn10(formal, tp_var, body) == [k |-> "Fn", formal |-> formal, tp_var |-> tp_var, body |-> body]

IsType(t) == "c" \in DOMAIN t

\* The result for operand types cond_type, type_e0 and type_e1
Check_ifThenElse(cond_type, type_e0, type_e1) ==
    IF ~Type_eq(cond_type, TBool) THEN Exit("Type error")
    ELSE IF type_e0.c = "arrow" /\ type_e1.c = "arrow"
    THEN IF Type_eq(type_e0.hd, type_e1.hd) THEN ArrowType(type_e0.hd, type_e0.tl)
         ELSE Exit("Type error")
    ELSE IF Type_eq(type_e0, type_e1) THEN type_e0
    ELSE Exit("Type error")

RECURSIVE Check_accept(_, _)
\* visit_and ... visit_lth: both operands of type tp_in give tp_out; the right operand
\* is checked only if the left one has type tp_in
Check_visit_binary(e, tenv, tp_in, tp_out) ==
    LET l == Check_accept(e.left, tenv) IN
    IF ~IsType(l) THEN l
    ELSE IF ~Type_eq(l, tp_in) THEN Exit("Type error")
    ELSE LET r == Check_accept(e.right, tenv) IN
         IF ~IsType(r) THEN r
         ELSE IF Type_eq(r, tp_in) THEN tp_out ELSE Exit("Type error")

Check_visit_unary(e, tenv, tp) ==
    LET t == Check_accept(e.exp, tenv) IN
    IF ~IsType(t) THEN t
    ELSE IF Type_eq(t, tp) THEN tp ELSE Exit("Type error")

Check_visit_eql(e, tenv) ==
    LET l == Check_accept(e.left, tenv) IN
    IF ~IsType(l) THEN l
    ELSE LET r == Check_accept(e.right, tenv) IN
         IF ~IsType(r) THEN r
         ELSE IF Type_eq(l, r) THEN TBool ELSE Exit("Type error")

Check_visit_ifThenElse(e, tenv) ==
    LET cond_type == Check_accept(e.cond, tenv) IN
    IF ~IsType(cond_type) THEN cond_type
    ELSE IF ~Type_eq(cond_type, TBool) THEN Exit("Type error")
    ELSE LET type_e0 == Check_accept(e.e0, tenv) IN
         IF ~IsType(type_e0) THEN type_e0
         ELSE LET type_e1 == Check_accept(e.e1, tenv) IN
              IF ~IsType(type_e1) THEN type_e1
              ELSE Check_ifThenElse(cond_type, type_e0, type_e1)

Check_visit_let(e, tenv) ==
    LET type_def == Check_accept(e.exp_def, tenv) IN
    IF ~IsType(type_def) THEN type_def
    ELSE IF ~Type_eq(type_def, e.tp_var) THEN Exit("Type error")
    ELSE Check_accept(e.exp_body, Extend(tenv, e.identifier, e.tp_var))

Check_visit_fn(e, tenv) ==
    LET type_body == Check_accept(e.body, Extend(tenv, e.formal, e.tp_var)) IN
    IF ~IsType(type_body) THEN type_body ELSE ArrowType(e.tp_var, type_body)

Check_visit_app(e, tenv) ==
    LET type_function == Check_accept(e.function, tenv) IN
    IF ~IsType(type_function) THEN type_function
    ELSE IF type_function.c # "arrow" THEN Exit("Type error")
    ELSE LET type_actual == Check_accept(e.actual, tenv) IN
         IF ~IsType(type_actual) THEN type_actual
         ELSE IF ~Type_eq(type_actual, type_function.hd) THEN Exit("Type error")
         ELSE type_function.tl

Check_accept(e, tenv) ==
    CASE e.k = "Var" -> IF e.identifier \in DOMAIN tenv THEN tenv[e.identifier]
                        ELSE Exit("Def error")
      [] e.k = "Bln" -> TBool
      [] e.k = "Num" -> TInt
      [] e.k = "Eql" -> Check_visit_eql(e, tenv)
      [] e.k \in {"And", "Or"} -> Check_visit_binary(e, tenv, TBool, TBool)
      [] e.k \in {"Add", "Sub", "Mul", "Div"} -> Check_visit_binary(e, tenv, TInt, TInt)
      [] e.k \in {"Leq", "Lth"} -> Check_visit_binary(e, tenv, TInt, TBool)
      [] e.k = "Neg" -> Check_visit_unary(e, tenv, TInt)
      [] e.k = "Not" -> Check_visit_unary(e, tenv, TBool)
      [] e.k = "IfThenElse" -> Check_visit_ifThenElse(e, tenv)
      [] e.k = "Let" -> Check_visit_let(e, tenv)
      [] e.k = "Fn" -> Check_visit_fn(e, tenv)
      [] e.k = "App" -> Check_visit_app(e, tenv)

\* Types of the annotations: int, bool and the arrow types over them
CheckTypes == {TInt, TBool} \cup {ArrowType(a, b) : a \in {TInt, TBool}, b \in {TInt, TBool}}

\* Closed functions of the types int -> int, int -> bool, bool -> int, bool -> bool and
\* int -> (int -> int)
CheckFunctions ==
    {Fn10("x", t, b) : t \in {TInt, TBool}, b \in {Num(1), Bln(TRUE), Var("x")}}
    \cup {Fn10("x", TInt, Fn10("y", TInt, BinaryExpression("Add", Var("y"), Var("x"))))}

CheckConds ==
    {Bln(TRUE), Num(MaxNum), BinaryExpression("Lth", Num(1), Num(0)), Var("v"),
     Fn10("x", TBool, Var("x"))}

CheckArms ==
    {Num(MaxNum), Bln(FALSE), BinaryExpression("Lth", Num(1), Num(0)), Var("v"),
     BinaryExpression("Add", Num(1), Bln(TRUE))} \cup CheckFunctions

CheckSources ==
    {IfThenElse(c, e0, e1) : c \in CheckConds, e0 \in CheckArms, e1 \in CheckArms}
    \cup {Let10("v", t, d, IfThenElse(Bln(TRUE), Var("v"), e1)) :
            t \in CheckTypes, d \in CheckFunctions \cup {Num(1)}, e1 \in CheckFunctions}
    \cup {App(IfThenElse(Bln(FALSE), e0, e1), Num(1)) : e0 \in CheckFunctions,
                                                        e1 \in CheckFunctions}

InitCheck ==
    /\ src \in CheckSources
    /\ exp = src
    /\ phase = "checking"
    /\ status = "idle"
    /\ LET p == ProgramInit(0, <<>>, <<>>)
       IN /\ insts = p.insts
          /\ env = p.env
          /\ clos = p.clos
          /\ mem = p.mem
          /\ pc = p.pc
          /\ error = p.error
    /\ var_answer = None
    /\ inst = None
    /\ steps = 0
    /\ answer = None
    /\ source = <<>>
    /\ position = 0
    /\ tokens = <<>>
    /\ cur_token_idx = 0
    /\ constraints = None
    /\ type_names = None

\* e.accept(TypeCheckVisitor(), {})
TypeCheck ==
    /\ phase = "checking"
    /\ LET t == Check_accept(exp, <<>>) IN
       IF IsType(t)
       THEN status' = "halted" /\ answer' = Some(t) /\ UNCHANGED error
       ELSE status' = "error" /\ error' = t.msg /\ answer' = None
    /\ phase' = "done"
    /\ UNCHANGED <<steps, insts, env, clos, mem, pc, inst, src, exp, var_answer,
                   lexerVars, typeVars>>

NextCheck == TypeCheck

SpecCheck == InitCheck /\ [][NextCheck]_vars

\* C25: the type check accepts IfThenElse(c, e0, e1) only if c has type bool and e0 and
\* e1 have equal types, where two arrow types are equal when their parameter types and
\* their result types are equal; it then returns the common type, and stops with
\* 'Type error' otherwise.
C25_IfThenElseTypes ==
    phase = "done" /\ src.k = "IfThenElse" =>
        LET cond_type == Check_accept(src.cond, <<>>)
            type_e0 == Check_accept(src.e0, <<>>)
            type_e1 == Check_accept(src.e1, <<>>)
        IN IsType(cond_type) /\ IsType(type_e0) /\ IsType(type_e1) =>
              IF cond_type = TBool /\ type_e0 = type_e1
              THEN status = "halted" /\ answer = Some(type_e0)
              ELSE status = "error" /\ error = "Type error"

\* An if whose arms are functions of the types int -> int and int -> bool is accepted
C25_ArmsDiffer ==
    /\ phase = "done"
    /\ src = IfThenElse(Bln(TRUE), Fn10("x", TInt, Num(1)), Fn10("x", TInt, Bln(TRUE)))
    /\ status = "halted"
    /\ answer = Some(ArrowType(TInt, TInt))

(***************************************************************************)
(* Further claims about the pipeline (specification SpecPipeline).         *)
(***************************************************************************)
\* C26: for every well-typed closed source without Fn and App whose evaluation divides
\* by no zero, rename -> GenVisitor -> Program.eval ends without error and the register
\* returned by the generator holds the value of the EvalVisitor (true/false as 1/0).
C26_FirstOrderEquivalence ==
    (src # None /\ (phase = "done" \/ status = "error") /\ FirstOrder(src) /\ WellTyped(src)
       /\ Eval_accept(src, <<>>).t \in {"int", "bool"})
    => (status = "halted" /\ answer = Some(IntV(Encoded(Eval_accept(src, <<>>)))))

\* C26 witness: a shadowing let whose definition uses the outer variable has run
C26_Witness ==
    /\ phase = "done"
    /\ FirstOrder(src) /\ WellTyped(src)
    /\ src.k = "Let" /\ src.exp_body.k = "Let" /\ src.exp_body.identifier = src.identifier
    /\ src.exp_body.exp_def = Var(src.identifier)
    /\ status = "halted"
    /\ answer = Some(IntV(Encoded(Eval_accept(src, <<>>))))

\* C27: an identifier with no enclosing binder is still unbound after renaming and
\* generation: a run that reads it stops with the undefined-register error and never
\* reads the value of a renamed binder's register (base_N), of a temporary (tmpN) or of
\* a builtin register (x0, sp).  The evaluator's 'Def error' marks the sources whose
\* evaluation reads such an identifier.
C27_FreeIdentifierUnbound ==
    (src # None /\ (phase = "done" \/ status = "error") /\ FirstOrder(src)
       /\ Eval_accept(src, <<>>) = Exit("Def error"))
    => (status = "error" /\ error = "Undefined register")

\* let x <- 1 in x_0 end: the free x_0 reads the register of the renamed binder x
C27_Captured ==
    /\ phase = "done"
    /\ src = Let("x", Num(1), Var("x_0"))
    /\ status = "halted"
    /\ answer = Some(IntV(1))

\* The registers GenVisitor draws with next_var_name
Temporaries == {"tmp" \o ToString(n) : n \in 1 .. MaxGenSteps}

\* The instructions of the generated code that write the register of a let binder:
\* visit_let's add identifier, value, x0
LetWrites ==
    {i \in 1 .. Len(insts) : /\ insts[i].op = "add"
                             /\ insts[i].rs2 = "x0"
                             /\ insts[i].rd \notin Temporaries}

\* C28: every let-bound register belongs to a single binder instance: no two let
\* instances of the generated code, inlined copies of one function body included, write
\* the same register.
C28_LetRegistersDistinct ==
    phase = "machine" =>
        \A i, j \in LetWrites : insts[i].rd = insts[j].rd => i = j

\* let f <- fn x => let y <- x in y end in f 1 + f 2 end: both inlined copies of the
\* body write the one register of y, and the sum is 4
C28_Shared ==
    /\ phase = "done"
    /\ src = Let("f", Fn("x", Let("y", Var("x"), Var("y"))),
                 BinaryExpression("Add", App(Var("f"), Num(1)), App(Var("f"), Num(2))))
    /\ \E i, j \in LetWrites : i # j /\ insts[i].rd = insts[j].rd
    /\ answer = Some(IntV(4))

\* The branches and jumps of the generated code, as positions of insts
Jumps == {i \in 1 .. Len(insts) : insts[i].op \in {"beq", "jal"}}

\* C29: every Beq and Jal that GenVisitor produces has a target strictly greater than
\* its own index, so in a run of generated code pc strictly increases from one executed
\* instruction to the next, no instruction is executed twice and the run halts within
\* instruction_count steps.
C29_ForwardJumps ==
    [][phase = "machine" /\ src # None =>
          /\ \A i \in Jumps : insts[i].lab # None /\ insts[i].lab[1] > i - 1
          /\ inst = None /\ inst' # None => inst' = Some(insts[pc + 1]) /\ pc' = pc + 1
          /\ inst # None /\ inst' = None => pc' > pc - 1
          /\ steps' <= Len(insts)]_vars

\* C29 witness: a run of code with a jal has halted after skipping instructions
C29_Witness ==
    /\ phase = "done"
    /\ status = "halted"
    /\ \E i \in Jumps : insts[i].op = "jal"
    /\ pc = Len(insts)
    /\ 0 < steps /\ steps < Len(insts)

(***************************************************************************)
(* Progress of the lexer (specification SpecFront).                        *)
(***************************************************************************)
\* C30: every call of getToken made before the end of the input either raises or moves
\* the cursor forward by at least one character, and the cursor never exceeds the
\* length of the input; so tokens() ends after at most one call per character and the
\* end-of-input call, and yields at most one token per input character.
C30_LexerProgress ==
    [][phase = "lexing" /\ status = "idle" =>
          /\ position < Len(source) => status' = "error" \/ position' > position
          /\ position >= Len(source) => phase' = "lexed"
          /\ position' <= Len(source)
          /\ Len(tokens') <= position'
          /\ Len(tokens') <= Len(tokens) + 1]_vars

\* C30 witness: the lexer stands at the end of an input of which one call consumed
\* several characters and another yielded nothing
C30_Witness ==
    /\ phase = "lexing"
    /\ status = "idle"
    /\ position = Len(source)
    /\ 0 < Len(tokens) /\ Len(tokens) + 2 < position
    /\ \E i \in 1 .. Len(tokens) : Len(tokens[i].text) > 1

====
